---- MODULE Spec2Model ----
(***************************************************************************)
(* Verification model of rio-tiler-pds: scene-id parsers, band catalogs,   *)
(* band URL resolvers, the multi-band readers, the object cache, the STAC   *)
(* item fetch, the reader_options attributes and the Copernicus DEM mosaic *)
(* cell naming.  Python strings are TLA+ strings; characters are read with *)
(* SubSeq, so that len(), slicing and regular expressions are computed as  *)
(* the code computes them.                                                 *)
(***************************************************************************)
EXTENDS Integers, Sequences, FiniteSets, TLC

VARIABLES
    ps,         \* scene-id parsing: the last parser call and its outcome
    rdr,        \* the opened reader (class, scene_params, bands) or the failure to open
    url,        \* the last _get_band_url / _get_asset_url call and its outcome
    opts,       \* the reader instances alive and the reader_options dicts they refer to
    dem,        \* the last DEM mosaic call and its outcome
    rd_reader,  \* multi-band read: the reader the calls are made on
    rd_call,    \* multi-band read: the call in progress (op, bands, expression)
    rd_pc,      \* multi-band read: "idle", "running" or "done"
    rd_bands,   \* multi-band read: the bands resolved from the request
    rd_tasks,   \* multi-band read: one task per resolved band
    rd_log,     \* multi-band read: reads issued to the per-band reader, warnings
    rd_out,     \* multi-band read: the value returned or the exception raised
    rd_masks,   \* multi-band read: the validity mask each finished task returned
    cache_keys, \* lru_cache: the resident keys, oldest link first
    cache_calls,\* lru_cache: each caller's position in the wrapper
    cache_used, \* lru_cache: when each key was last stored or hit
    cache_clock \* lru_cache: the number of stores and hits so far

parseVars == <<ps>>
urlVars == <<rdr, url, opts>>
demVars == <<dem>>
readVars == <<rd_reader, rd_call, rd_pc, rd_bands, rd_tasks, rd_log, rd_out, rd_masks>>
cacheVars == <<cache_keys, cache_calls, cache_used, cache_clock>>
vars == <<ps, rdr, url, opts, dem, rd_reader, rd_call, rd_pc, rd_bands, rd_tasks, rd_log, rd_out,
          rd_masks, cache_keys, cache_calls, cache_used, cache_clock>>

(***************************************************************************)
(* Strings and characters                                                  *)
(***************************************************************************)
Char(s, i) == SubSeq(s, i, i)

Digits == {"0", "1", "2", "3", "4", "5", "6", "7", "8", "9"}
UpperSeq == "ABCDEFGHIJKLMNOPQRSTUVWXYZ"
LowerSeq == "abcdefghijklmnopqrstuvwxyz"
Upper == {Char(UpperSeq, j) : j \in 1..Len(UpperSeq)}
Lower == {Char(LowerSeq, j) : j \in 1..Len(LowerSeq)}
WordChars == Digits \cup Upper \cup Lower \cup {"_"}
UpperDigits == Upper \cup Digits

Min(a, b) == IF a < b THEN a ELSE b
Abs(n) == IF n < 0 THEN -n ELSE n

\* str.upper() of one character
UpperChar(c) ==
    IF c \in Lower THEN Char(UpperSeq, CHOOSE j \in 1..Len(LowerSeq) : Char(LowerSeq, j) = c)
    ELSE c

\* str.lower() of one character
LowerChar(c) ==
    IF c \in Upper THEN Char(LowerSeq, CHOOSE j \in 1..Len(UpperSeq) : Char(UpperSeq, j) = c)
    ELSE c

RECURSIVE StrUpper(_)
StrUpper(s) == IF s = "" THEN "" ELSE UpperChar(Head(s)) \o StrUpper(Tail(s))

RECURSIVE StrLower(_)
StrLower(s) == IF s = "" THEN "" ELSE LowerChar(Head(s)) \o StrLower(Tail(s))

\* str.lstrip("0")
RECURSIVE LStripZero(_)
LStripZero(s) == IF s # "" /\ Head(s) = "0" THEN LStripZero(Tail(s)) ELSE s

\* str.startswith(p)
StartsWith(s, p) == Len(p) <= Len(s) /\ SubSeq(s, 1, Len(p)) = p

\* x in s, for two Python strings
IsSubstring(x, s) ==
    \E i \in 1..(Len(s) + 1) : i + Len(x) - 1 <= Len(s) /\ SubSeq(s, i, i + Len(x) - 1) = x

\* str.replace(old, new), old being one character
RECURSIVE StrReplace(_, _, _)
StrReplace(s, old, new) ==
    IF s = "" THEN ""
    ELSE (IF Head(s) = old THEN new ELSE Head(s)) \o StrReplace(Tail(s), old, new)

DigitVal(c) == CHOOSE d \in 0..9 : Char("0123456789", d + 1) = c

\* int(s), s being decimal digits
RECURSIVE StrToInt(_)
StrToInt(s) ==
    IF s = "" THEN 0
    ELSE 10 * StrToInt(SubSeq(s, 1, Len(s) - 1)) + DigitVal(Char(s, Len(s)))

\* str(n) for n >= 0
RECURSIVE IntToStr(_)
IntToStr(n) ==
    IF n < 10 THEN Char("0123456789", n + 1)
    ELSE IntToStr(n \div 10) \o Char("0123456789", (n % 10) + 1)

\* format(n, "0<w>d") for n >= 0
RECURSIVE ZeroPad(_, _)
ZeroPad(s, w) == IF Len(s) >= w THEN s ELSE ZeroPad("0" \o s, w)

(***************************************************************************)
(* Regular expressions, as re.match evaluates the patterns of the source:  *)
(* a pattern is a sequence of parts, each a greedy bounded repetition of a *)
(* character class or an ordered alternation of literals, anchored at both *)
(* ends; the match is the first one in backtracking order.  A named group  *)
(* is the text of the parts that carry its name.                           *)
(***************************************************************************)
Rep(name, cls, lo, hi) ==
    [name |-> name, kind |-> "rep", cls |-> cls, lo |-> lo, hi |-> hi, alts |-> <<>>]
Alt(name, alts) ==
    [name |-> name, kind |-> "alt", cls |-> {}, lo |-> 0, hi |-> 0, alts |-> alts]
Lit(s) == Alt("", <<s>>)
\* + : one or more (hi < 0 is "no upper limit")
Plus(name, cls) == Rep(name, cls, 1, -1)

NoMatch == <<-1>>

InClass(c, cls, ic) == c \in cls \/ (ic /\ (UpperChar(c) \in cls \/ LowerChar(c) \in cls))

\* the length of the longest run of class characters from position i, at most cap
RunLen(s, i, cls, ic, cap) ==
    LET most == Min(cap, Len(s) - i + 1)
        run(n) == \A j \in 0..(n - 1) : InClass(Char(s, i + j), cls, ic)
    IN  IF most <= 0 THEN 0
        ELSE CHOOSE n \in 0..most : run(n) /\ (n = most \/ ~run(n + 1))

LitEq(a, b, ic) == IF ic THEN StrUpper(a) = StrUpper(b) ELSE a = b

RECURSIVE MatchFrom(_, _, _, _, _)

\* of the candidates <<key, rest of the match>>, the matching one of the largest key
PickBest(R) ==
    LET good == {p \in R : p[2] # NoMatch}
    IN  IF good = {} THEN <<0, NoMatch>>
        ELSE CHOOSE p \in good : \A q \in good : q[1] <= p[1]

\* a greedy repetition keeps the longest run that lets the rest of the pattern match
TryRep(parts, k, s, i, ic, run) ==
    CHOOSE m \in {IF p[2] = NoMatch THEN NoMatch ELSE <<p[1]>> \o p[2] :
                  p \in {PickBest(R) :
                         R \in {{<<n, MatchFrom(parts, k + 1, s, i + n, ic)>> :
                                 n \in parts[k].lo..run}}}} : TRUE

\* an alternation keeps the first alternative that lets the rest of the pattern match
TryAlt(parts, k, s, i, ic) ==
    LET alts == parts[k].alts
        fits(a) == /\ i + Len(alts[a]) - 1 <= Len(s)
                   /\ LitEq(SubSeq(s, i, i + Len(alts[a]) - 1), alts[a], ic)
    IN  CHOOSE m \in {IF p[2] = NoMatch THEN NoMatch ELSE <<Len(alts[-p[1]])>> \o p[2] :
                      p \in {PickBest(R) :
                             R \in {{<<-a, IF fits(a)
                                           THEN MatchFrom(parts, k + 1, s, i + Len(alts[a]), ic)
                                           ELSE NoMatch>> :
                                     a \in 1..Len(alts)}}}} : TRUE

MatchFrom(parts, k, s, i, ic) ==
    IF k > Len(parts) THEN (IF i = Len(s) + 1 THEN <<>> ELSE NoMatch)
    ELSE IF parts[k].kind = "rep"
         THEN TryRep(parts, k, s, i, ic,
                     RunLen(s, i, parts[k].cls, ic,
                            IF parts[k].hi < 0 THEN Len(s) ELSE parts[k].hi))
         ELSE TryAlt(parts, k, s, i, ic)

\* re.match(pattern, s [, re.IGNORECASE]): the part lengths, or NoMatch
ReMatch(parts, s, ic) == MatchFrom(parts, 1, s, 1, ic)

RECURSIVE GroupFrom(_, _, _, _, _, _)
GroupFrom(parts, m, s, name, k, i) ==
    IF k > Len(parts) THEN ""
    ELSE (IF parts[k].name = name THEN SubSeq(s, i, i + m[k] - 1) ELSE "")
         \o GroupFrom(parts, m, s, name, k + 1, i + m[k])

\* match.groupdict()[name]
Group(parts, m, s, name) == GroupFrom(parts, m, s, name, 1, 1)

\* the outcome of a call: a value returned or an exception raised
Ok(v) == [status |-> "ok", exc |-> "", val |-> v]
Raise(e) == [status |-> "raise", exc |-> e, val |-> <<>>]

(***************************************************************************)
(* CBERS scene ids                                                         *)
(***************************************************************************)
D(name, n) == Rep(name, Digits, n, n)

\* a band table entry: Python tuples are sequences; ("B1") without a comma is a str
Tuple(seq) == [isStr |-> FALSE, str |-> "", seq |-> seq]
PyStr(s) == [isStr |-> TRUE, str |-> s, seq |-> <<>>]

\* x in container, for a tuple (element equality) or a str (substring)
PyIn(x, c) == IF c.isStr THEN IsSubstring(x, c.str) ELSE \E i \in 1..Len(c.seq) : c.seq[i] = x

cbers_precheck ==
    <<Lit("CBERS_"), Alt("", <<"4", "4A">>), Lit("_"), Plus("", WordChars), Lit("_"),
      D("", 8), Lit("_"), D("", 3), Lit("_"), D("", 3), Lit("_L"), Plus("", WordChars)>>

cbers_pattern ==
    <<Plus("satellite", WordChars), Lit("_"), Plus("mission", WordChars), Lit("_"),
      Plus("instrument", WordChars), Lit("_"),
      D("acquisitionYear", 4), D("acquisitionMonth", 2), D("acquisitionDay", 2), Lit("_"),
      D("path", 3), Lit("_"), D("row", 3), Lit("_"),
      Alt("processingCorrectionLevel", <<"L">>), Plus("processingCorrectionLevel", WordChars)>>

cbers_instruments == {"MUX", "AWFI", "PAN10M", "PAN5M", "WFI", "WPM"}

cbers_instrument_params(instrument) ==
    CASE instrument = "MUX" ->
           [reference_band |-> "B6", bands |-> Tuple(<<"B5", "B6", "B7", "B8">>),
            rgb |-> <<"B7", "B6", "B5">>]
      [] instrument = "AWFI" ->
           [reference_band |-> "B14", bands |-> Tuple(<<"B13", "B14", "B15", "B16">>),
            rgb |-> <<"B15", "B14", "B13">>]
      [] instrument = "PAN10M" ->
           [reference_band |-> "B4", bands |-> Tuple(<<"B2", "B3", "B4">>),
            rgb |-> <<"B3", "B4", "B2">>]
      [] instrument = "PAN5M" ->
           [reference_band |-> "B1", bands |-> Tuple(<<"B1">>), rgb |-> <<"B1", "B1", "B1">>]
      [] instrument = "WFI" ->
           [reference_band |-> "B14", bands |-> Tuple(<<"B13", "B14", "B15", "B16">>),
            rgb |-> <<"B15", "B14", "B13">>]
      [] instrument = "WPM" ->
           [reference_band |-> "B2", bands |-> Tuple(<<"B0", "B1", "B2", "B3", "B4">>),
            rgb |-> <<"B3", "B2", "B1">>]

\* the fields both CBERS parsers take from the match
cbers_meta(parts, m, sceneid, params) ==
    [satellite |-> Group(parts, m, sceneid, "satellite"),
     mission |-> Group(parts, m, sceneid, "mission"),
     instrument |-> Group(parts, m, sceneid, "instrument"),
     acquisitionYear |-> Group(parts, m, sceneid, "acquisitionYear"),
     acquisitionMonth |-> Group(parts, m, sceneid, "acquisitionMonth"),
     acquisitionDay |-> Group(parts, m, sceneid, "acquisitionDay"),
     path |-> Group(parts, m, sceneid, "path"),
     row |-> Group(parts, m, sceneid, "row"),
     processingCorrectionLevel |-> Group(parts, m, sceneid, "processingCorrectionLevel"),
     scene |-> sceneid,
     date |-> Group(parts, m, sceneid, "acquisitionYear") \o "-"
              \o Group(parts, m, sceneid, "acquisitionMonth") \o "-"
              \o Group(parts, m, sceneid, "acquisitionDay"),
     reference_band |-> params.reference_band,
     bands |-> params.bands,
     rgb |-> params.rgb]

\* rio_tiler_pds.cbers.utils.sceneid_parser
cbers_sceneid_parser(sceneid) ==
    IF ReMatch(cbers_precheck, sceneid, FALSE) = NoMatch THEN Raise("InvalidCBERSSceneId")
    ELSE LET m == ReMatch(cbers_pattern, sceneid, TRUE)
         IN  IF m = NoMatch THEN Raise("AttributeError")
             ELSE LET instrument == Group(cbers_pattern, m, sceneid, "instrument")
                  IN  IF instrument \notin cbers_instruments THEN Raise("KeyError")
                      ELSE Ok(cbers_meta(cbers_pattern, m, sceneid,
                                         cbers_instrument_params(instrument)))

awspds_precheck ==
    <<Lit("CBERS_4_"), Plus("", WordChars), Lit("_"),
      D("", 8), Lit("_"), D("", 3), Lit("_"), D("", 3), Lit("_L"), D("", 1)>>

awspds_pattern ==
    <<Plus("satellite", WordChars), Lit("_"), D("mission", 1), Lit("_"),
      Plus("instrument", WordChars), Lit("_"),
      D("acquisitionYear", 4), D("acquisitionMonth", 2), D("acquisitionDay", 2), Lit("_"),
      D("path", 3), Lit("_"), D("row", 3), Lit("_"),
      Alt("processingCorrectionLevel", <<"L">>), D("processingCorrectionLevel", 1)>>

awspds_instruments == {"MUX", "AWFI", "PAN10M", "PAN5M"}

awspds_instrument_params(instrument) ==
    IF instrument = "PAN5M"
    THEN [reference_band |-> "B1", bands |-> PyStr("B1"), rgb |-> <<"B1", "B1", "B1">>]
    ELSE cbers_instrument_params(instrument)

\* rio_tiler_pds.cbers.awspds_cbers.cbers_parser
cbers_parser(sceneid) ==
    IF ReMatch(awspds_precheck, sceneid, FALSE) = NoMatch THEN Raise("InvalidCBERSSceneId")
    ELSE LET m == ReMatch(awspds_pattern, sceneid, TRUE)
         IN  IF m = NoMatch THEN Raise("AttributeError")
             ELSE LET instrument == Group(awspds_pattern, m, sceneid, "instrument")
                  IN  IF instrument \notin awspds_instruments THEN Raise("KeyError")
                      ELSE Ok(cbers_meta(awspds_pattern, m, sceneid,
                                         awspds_instrument_params(instrument)))

(***************************************************************************)
(* Landsat scene ids and band catalogs                                     *)
(***************************************************************************)
OLI_SR_BANDS ==
    <<"QA_PIXEL", "QA_RADSAT", "SR_B1", "SR_B2", "SR_B3", "SR_B4", "SR_B5", "SR_B6", "SR_B7",
      "SR_QA_AEROSOL">>
TIRS_ST_BANDS ==
    <<"ST_ATRAN", "ST_B10", "ST_CDIST", "ST_DRAD", "ST_EMIS", "ST_EMSD", "ST_QA", "ST_TRAD",
      "ST_URAD">>
TM_SR_BANDS ==
    <<"QA_PIXEL", "QA_RADSAT", "SR_ATMOS_OPACITY", "SR_B1", "SR_B2", "SR_B3", "SR_B4", "SR_B5",
      "SR_B7", "SR_CLOUD_QA">>
TM_ST_BANDS ==
    <<"ST_ATRAN", "ST_B6", "ST_CDIST", "ST_DRAD", "ST_EMIS", "ST_EMSD", "ST_QA", "ST_TRAD",
      "ST_URAD">>
OLI_L1_BANDS == <<"B1", "B2", "B3", "B4", "B5", "B6", "B7", "B8", "B9">>
TIRS_L1_BANDS == <<"B10", "B11">>
OLI_L1_QA_BANDS == <<"QA_PIXEL", "QA_RADSAT", "SAA", "SZA", "VAA", "VZA">>
TIRS_L1_QA_BANDS == <<"QA_PIXEL", "QA_RADSAT">>
ETM_L1_BANDS ==
    <<"B1", "B2", "B3", "B4", "B5", "B6_VCID_1", "B6_VCID_2", "B7", "B8", "QA_PIXEL",
      "QA_RADSAT", "SAA", "SZA", "VAA", "VZA">>
TM_L1_BANDS ==
    <<"B1", "B2", "B3", "B4", "B5", "B6", "B7", "QA_PIXEL", "QA_RADSAT", "SAA", "SZA", "VAA",
      "VZA">>
MSS_L1_BANDS == <<"B4", "B5", "B6", "B7", "QA_PIXEL", "QA_RADSAT">>

\* a local variable that an if/elif chain may leave unassigned
Bound(v) == [bound |-> TRUE, bands |-> v]
Unbound == [bound |-> FALSE, bands |-> <<>>]

\* rio_tiler_pds.landsat.utils.get_bands_for_scene_meta
get_bands_for_scene_meta(meta) ==
    LET sensor_name == meta.sensor_name
    IN  IF meta.processingCorrectionLevel = "L2SR"
        THEN IF sensor_name \in {"oli-tirs", "oli"} THEN Bound(OLI_SR_BANDS)
             ELSE IF sensor_name \in {"tm", "etm"} THEN Bound(TM_SR_BANDS)
             ELSE Unbound
        ELSE IF meta.processingCorrectionLevel = "L2SP"
        THEN IF sensor_name = "oli-tirs" THEN Bound(OLI_SR_BANDS \o TIRS_ST_BANDS)
             ELSE IF sensor_name \in {"tm", "etm"} THEN Bound(TM_SR_BANDS \o TM_ST_BANDS)
             ELSE Unbound
        ELSE IF sensor_name = "oli" THEN Bound(OLI_L1_BANDS \o OLI_L1_QA_BANDS)
             ELSE IF sensor_name = "tirs" THEN Bound(TIRS_L1_BANDS \o TIRS_L1_QA_BANDS)
             ELSE IF sensor_name = "oli-tirs"
                  THEN Bound(OLI_L1_BANDS \o TIRS_L1_BANDS \o OLI_L1_QA_BANDS)
             ELSE IF sensor_name = "etm" THEN Bound(ETM_L1_BANDS)
             ELSE IF sensor_name = "tm" THEN Bound(TM_L1_BANDS)
             ELSE IF sensor_name = "mss" THEN Bound(MSS_L1_BANDS)
             ELSE Unbound

landsat_precheck ==
    <<Lit("L"), Rep("", {"C", "O", "T", "E", "M"}, 1, 1), D("", 2), Lit("_L"), D("", 1),
      Rep("", Upper, 2, 2), Lit("_"), D("", 6), Lit("_"), D("", 8), Lit("_"), D("", 8),
      Lit("_"), D("", 2), Lit("_"), Rep("", WordChars, 2, 2)>>

collection_pattern ==
    <<Lit("L"), Rep("sensor", WordChars, 1, 1), Rep("satellite", WordChars, 2, 2), Lit("_"),
      Rep("processingCorrectionLevel", WordChars, 4, 4), Lit("_"),
      D("path", 3), D("row", 3), Lit("_"),
      D("acquisitionYear", 4), D("acquisitionMonth", 2), D("acquisitionDay", 2), Lit("_"),
      D("processingYear", 4), D("processingMonth", 2), D("processingDay", 2), Lit("_"),
      Rep("collectionNumber", WordChars, 2, 2), Lit("_"),
      Rep("collectionCategory", WordChars, 2, 2)>>

\* the if/elif chain of sceneid_parser that names the sensor
landsat_sensor_name(sensor, satellite) ==
    IF sensor = "C" THEN Bound("oli-tirs")
    ELSE IF sensor = "O" THEN Bound("oli")
    ELSE IF sensor = "T" /\ StrToInt(satellite) >= 8 THEN Bound("tirs")
    ELSE IF sensor = "E" THEN Bound("etm")
    ELSE IF sensor = "T" /\ StrToInt(satellite) < 8 THEN Bound("tm")
    ELSE IF sensor = "M" THEN Bound("mss")
    ELSE Unbound

landsat_meta(m, sceneid, sensor_name) ==
    LET G(name) == Group(collection_pattern, m, sceneid, name)
    IN  [sensor |-> G("sensor"), satellite |-> G("satellite"),
         processingCorrectionLevel |-> G("processingCorrectionLevel"),
         path |-> G("path"), row |-> G("row"),
         acquisitionYear |-> G("acquisitionYear"),
         acquisitionMonth |-> G("acquisitionMonth"),
         acquisitionDay |-> G("acquisitionDay"),
         processingYear |-> G("processingYear"),
         processingMonth |-> G("processingMonth"),
         processingDay |-> G("processingDay"),
         collectionNumber |-> G("collectionNumber"),
         collectionCategory |-> G("collectionCategory"),
         scene |-> sceneid,
         date |-> G("acquisitionYear") \o "-" \o G("acquisitionMonth") \o "-"
                  \o G("acquisitionDay"),
         _processingLevelNum |-> Char(G("processingCorrectionLevel"), 2),
         category |-> IF G("collectionCategory") \in {"A1", "A2"} THEN "albers" ELSE "standard",
         sensor_name |-> sensor_name,
         _sensor_s3_prefix |-> IF sensor_name \in {"oli", "tirs"} THEN "oli-tirs" ELSE sensor_name]

\* rio_tiler_pds.landsat.utils.sceneid_parser
landsat_sceneid_parser(sceneid) ==
    IF ReMatch(landsat_precheck, sceneid, FALSE) = NoMatch THEN Raise("InvalidLandsatSceneId")
    ELSE LET m == ReMatch(collection_pattern, sceneid, TRUE)
         IN  IF m = NoMatch THEN Raise("AttributeError")
             ELSE LET sn == landsat_sensor_name(Group(collection_pattern, m, sceneid, "sensor"),
                                                Group(collection_pattern, m, sceneid, "satellite"))
                  IN  IF ~sn.bound THEN Raise("UnboundLocalError")
                      ELSE LET meta == landsat_meta(m, sceneid, sn.bands)
                               bands == get_bands_for_scene_meta(meta)
                           IN  IF ~bands.bound THEN Raise("UnboundLocalError")
                               ELSE Ok([f \in (DOMAIN meta) \cup {"bands"} |->
                                          IF f = "bands" THEN bands.bands ELSE meta[f]])

(***************************************************************************)
(* MODIS scene ids                                                         *)
(***************************************************************************)
modis_precheck ==
    <<Lit("M"), Rep("", {"C", "O", "Y"}, 1, 1), Lit("D"), D("", 2), Rep("", UpperDigits, 2, 2),
      Lit(".A"), D("", 4), D("", 3), Lit(".h"), D("", 2), Lit("v"), D("", 2), Lit("."),
      D("", 3), Lit("."), D("", 13)>>

modis_pattern ==
    <<Alt("product", <<"M">>), Rep("product", {"C", "O", "Y"}, 1, 1), Alt("product", <<"D">>),
      D("product", 2), Rep("product", UpperDigits, 2, 2),
      Lit(".A"), D("date", 4), D("date", 3), Lit(".h"), D("horizontal_grid", 2), Lit("v"),
      D("vertical_grid", 2), Lit("."), D("version", 3), Lit("."),
      D("acquisitionYear", 4), D("acquisitionDOY", 3), D("", 6)>>

\* rio_tiler_pds.modis.utils.sceneid_parser
modis_sceneid_parser(sceneid) ==
    IF ReMatch(modis_precheck, sceneid, FALSE) = NoMatch THEN Raise("InvalidMODISSceneId")
    ELSE LET m == ReMatch(modis_pattern, sceneid, TRUE)
             G(name) == Group(modis_pattern, m, sceneid, name)
         IN  IF m = NoMatch THEN Raise("AttributeError")
             ELSE Ok([product |-> G("product"), date |-> G("date"),
                      horizontal_grid |-> G("horizontal_grid"),
                      vertical_grid |-> G("vertical_grid"), version |-> G("version"),
                      acquisitionYear |-> G("acquisitionYear"),
                      acquisitionDOY |-> G("acquisitionDOY"), scene |-> sceneid])

(***************************************************************************)
(* Sentinel scene ids                                                      *)
(***************************************************************************)
DateTime(name) == <<D(name, 8), Alt(name, <<"T">>), D(name, 6)>>

s1_precheck ==
    <<Lit("S1"), Rep("", {"A", "B"}, 1, 1), Lit("_"), Alt("", <<"IW", "EW">>), Lit("_"),
      Rep("", Upper, 3, 3), Rep("", {"F", "H", "M"}, 1, 1), Lit("_"),
      D("", 1), Rep("", {"S", "A"}, 1, 1), Rep("", Upper, 2, 2), Lit("_")>>
    \o DateTime("") \o <<Lit("_")>> \o DateTime("")
    \o <<Lit("_"), Rep("", UpperDigits, 6, 6), Lit("_"), Rep("", UpperDigits, 6, 6), Lit("_"),
         Rep("", UpperDigits, 4, 4)>>

sentinel_pattern ==
    <<Lit("S"), Rep("sensor", WordChars, 1, 1), Rep("satellite", {"A", "B"}, 1, 1), Lit("_"),
      Rep("beam", Upper, 2, 2), Lit("_"),
      Rep("product", Upper, 3, 3), Rep("resolution", {"F", "H", "M"}, 1, 1), Lit("_"),
      D("processing_level", 1), Rep("product_class", {"S", "A"}, 1, 1),
      Alt("polarisation", <<"SH", "SV", "DH", "DV">>), Lit("_")>>
    \o DateTime("startDateTime") \o <<Lit("_")>> \o DateTime("stopDateTime")
    \o <<Lit("_"), D("absolute_orbit", 6), Lit("_"), Rep("mission_task", UpperDigits, 6, 6),
         Lit("_"), Rep("product_id", UpperDigits, 4, 4)>>

\* rio_tiler_pds.sentinel.utils.s1_sceneid_parser
s1_sceneid_parser(sceneid) ==
    IF ReMatch(s1_precheck, sceneid, FALSE) = NoMatch THEN Raise("InvalidSentinelSceneId")
    ELSE LET m == ReMatch(sentinel_pattern, sceneid, TRUE)
             G(name) == Group(sentinel_pattern, m, sceneid, name)
             start == G("startDateTime")
         IN  IF m = NoMatch THEN Raise("AttributeError")
             ELSE Ok([sensor |-> G("sensor"), satellite |-> G("satellite"), beam |-> G("beam"),
                      product |-> G("product"), resolution |-> G("resolution"),
                      processing_level |-> G("processing_level"),
                      product_class |-> G("product_class"),
                      polarisation |-> G("polarisation"),
                      startDateTime |-> start, stopDateTime |-> G("stopDateTime"),
                      absolute_orbit |-> G("absolute_orbit"),
                      mission_task |-> G("mission_task"), product_id |-> G("product_id"),
                      acquisitionYear |-> SubSeq(start, 1, 4),
                      acquisitionMonth |-> SubSeq(start, 5, 6),
                      acquisitionDay |-> SubSeq(start, 7, 8),
                      scene |-> sceneid,
                      date |-> SubSeq(start, 1, 4) \o "-" \o SubSeq(start, 5, 6) \o "-"
                               \o SubSeq(start, 7, 8),
                      _month |-> LStripZero(SubSeq(start, 5, 6)),
                      _day |-> LStripZero(SubSeq(start, 7, 8))])

Level(name) == <<Alt(name, <<"L">>), Rep(name, {"0", "1", "2"}, 1, 1),
                 Rep(name, {"A", "B", "C"}, 1, 1)>>
S2Sat == <<Lit("S"), Rep("sensor", WordChars, 1, 1), Rep("satellite", {"A", "B"}, 1, 1)>>
S2Date == <<D("acquisitionYear", 4), D("acquisitionMonth", 2), D("acquisitionDay", 2)>>
S2Tile(lo) == <<Rep("utm", Digits, lo, 2), Rep("lat", WordChars, 1, 1),
                Rep("sq", WordChars, 2, 2)>>

s2_legacy_precheck ==
    <<Lit("S2"), Rep("", {"A", "B"}, 1, 1), Lit("_")>> \o Level("")
    \o <<Lit("_"), D("", 8), Lit("_"), Rep("", Digits, 1, 2), Rep("", Upper, 3, 3), Lit("_"),
         Rep("", Digits, 1, 2)>>
s2_legacy_pattern ==
    S2Sat \o <<Lit("_")>> \o Level("processingLevel") \o <<Lit("_")>> \o S2Date
    \o <<Lit("_")>> \o S2Tile(1) \o <<Lit("_"), Rep("num", Digits, 1, 2)>>

s2_new_precheck ==
    <<Lit("S2"), Rep("", {"A", "B"}, 1, 1), Lit("_"), Rep("", Digits, 1, 2),
      Rep("", Upper, 3, 3), Lit("_"), D("", 8), Lit("_"), Rep("", Digits, 1, 2), Lit("_")>>
    \o Level("")
s2_new_pattern ==
    S2Sat \o <<Lit("_")>> \o S2Tile(1) \o <<Lit("_")>> \o S2Date
    \o <<Lit("_"), Rep("num", Digits, 1, 2), Lit("_")>> \o Level("processingLevel")

s2_product_precheck ==
    <<Lit("S2"), Rep("", {"A", "B"}, 1, 1), Lit("_MSI")>> \o Level("") \o <<Lit("_")>>
    \o DateTime("") \o <<Lit("_N"), D("", 4), Lit("_R"), D("", 3), Lit("_T"),
                         Rep("", UpperDigits, 5, 5), Lit("_")>> \o DateTime("")
s2_product_pattern ==
    S2Sat \o <<Lit("_MSI")>> \o Level("processingLevel") \o <<Lit("_")>> \o S2Date
    \o <<Lit("T"), D("acquisitionHMS", 6), Lit("_N"), D("baseline_number", 4), Lit("_R"),
         D("relative_orbit", 3), Lit("_T")>> \o S2Tile(2) \o <<Lit("_")>>
    \o DateTime("stopDateTime")

\* the fields of the Sentinel-2 scene parameters; a pattern without a num group gives ""
s2_meta(pattern, m, sceneid) ==
    LET G(name) == Group(pattern, m, sceneid, name)
    IN  [sensor |-> G("sensor"), satellite |-> G("satellite"),
         processingLevel |-> G("processingLevel"),
         acquisitionYear |-> G("acquisitionYear"),
         acquisitionMonth |-> G("acquisitionMonth"),
         acquisitionDay |-> G("acquisitionDay"),
         utm |-> G("utm"), lat |-> G("lat"), sq |-> G("sq"),
         num |-> IF G("num") = "" THEN "0" ELSE G("num"),
         acquisitionHMS |-> G("acquisitionHMS"),
         baseline_number |-> G("baseline_number"),
         relative_orbit |-> G("relative_orbit"),
         stopDateTime |-> G("stopDateTime"),
         scene |-> sceneid,
         date |-> G("acquisitionYear") \o "-" \o G("acquisitionMonth") \o "-"
                  \o G("acquisitionDay"),
         _utm |-> LStripZero(G("utm")),
         _month |-> LStripZero(G("acquisitionMonth")),
         _day |-> LStripZero(G("acquisitionDay")),
         _levelLow |-> StrLower(G("processingLevel"))]

\* rio_tiler_pds.sentinel.utils.s2_sceneid_parser
s2_sceneid_parser(sceneid) ==
    LET pattern ==
            IF ReMatch(s2_legacy_precheck, sceneid, FALSE) # NoMatch THEN s2_legacy_pattern
            ELSE IF ReMatch(s2_new_precheck, sceneid, FALSE) # NoMatch THEN s2_new_pattern
            ELSE IF ReMatch(s2_product_precheck, sceneid, FALSE) # NoMatch
                 THEN s2_product_pattern
            ELSE <<>>
    IN  IF pattern = <<>> THEN Raise("InvalidSentinelSceneId")
        ELSE LET m == ReMatch(pattern, sceneid, TRUE)
             IN  IF m = NoMatch THEN Raise("AttributeError")
                 ELSE Ok(s2_meta(pattern, m, sceneid))

(***************************************************************************)
(* Sentinel-2 readers                                                      *)
(***************************************************************************)
default_l1c_bands ==
    <<"B01", "B02", "B03", "B04", "B05", "B06", "B07", "B08", "B09", "B11", "B12", "B8A">>

default_l2a_bands ==
    <<"B01", "B02", "B03", "B04", "B05", "B06", "B07", "B08", "B09", "B11", "B12", "B8A">>

SENTINEL_L2_BANDS ==
    <<[res |-> "10", bands |-> <<"B02", "B03", "B04", "B08">>],
      [res |-> "20", bands |-> <<"B02", "B03", "B04", "B05", "B06", "B07", "B08", "B11",
                                 "B12", "B8A">>],
      [res |-> "60", bands |-> <<"B01", "B02", "B03", "B04", "B05", "B06", "B07", "B08",
                                 "B09", "B11", "B12", "B8A">>]>>

SENTINEL_L2_PRODUCTS ==
    <<[res |-> "10", bands |-> <<"AOT", "WVP">>],
      [res |-> "20", bands |-> <<"AOT", "SCL", "WVP">>],
      [res |-> "60", bands |-> <<"AOT", "SCL", "WVP">>]>>

\* the items of the mapping, in its declared order
sentinel_l2a_band_map ==
    <<<<"B01", "coastal">>, <<"B02", "blue">>, <<"B03", "green">>, <<"B04", "red">>,
      <<"B05", "rededge1">>, <<"B06", "rededge2">>, <<"B07", "rededge3">>, <<"B08", "nir">>,
      <<"B8A", "nir08">>, <<"B09", "nir09">>, <<"B11", "swir16">>, <<"B12", "swir22">>>>

Range(seq) == {seq[i] : i \in 1..Len(seq)}

\* a resolver that looks the name up as given, without normalising the alias
BandNameAsGiven(band) == Ok(band)

\* band if len(band) == 3 else f"B0{band[-1]}"; band[-1] of "" is an IndexError
s2_band_name(band) ==
    IF Len(band) = 3 THEN Ok(band)
    ELSE IF band = "" THEN Raise("IndexError")
    ELSE Ok("B0" \o Char(band, Len(band)))

\* prefix_pattern of S2L1CReader and S2L2AReader, formatted with the scene parameters
s2_jp2_prefix(p) ==
    "tiles/" \o p._utm \o "/" \o p.lat \o "/" \o p.sq \o "/" \o p.acquisitionYear \o "/"
    \o p._month \o "/" \o p._day \o "/" \o p.num

\* a scene id built from the UTM zone as written, leading zero kept
CogSceneidWithRawUtm(p) ==
    "S" \o p.sensor \o p.satellite \o "_" \o p.utm \o p.lat \o p.sq \o "_"
    \o p.acquisitionYear \o p.acquisitionMonth \o p.acquisitionDay \o "_" \o p.num \o "_"
    \o p.processingLevel

\* the id of the scene in the sentinel-cogs bucket
cog_sceneid(p) ==
    "S" \o p.sensor \o p.satellite \o "_" \o p._utm \o p.lat \o p.sq \o "_"
    \o p.acquisitionYear \o p.acquisitionMonth \o p.acquisitionDay \o "_" \o p.num \o "_"
    \o p.processingLevel

\* prefix_pattern of S2L2ACOGReader, formatted with the scene parameters
s2_cog_prefix(p) ==
    "sentinel-s2-" \o p._levelLow \o "-cogs/" \o p._utm \o "/" \o p.lat \o "/" \o p.sq \o "/"
    \o p.acquisitionYear \o "/" \o p._month \o "/" \o cog_sceneid(p)

\* S2L1CReader.__attrs_post_init__ (the tileInfo.json fetch gives bounds only)
S2L1CReader_init(input) ==
    LET parsed == s2_sceneid_parser(input)
    IN  IF parsed.status = "raise" THEN parsed
        ELSE Ok([input |-> input, scene_params |-> parsed.val,
                 bands |-> Tuple(default_l1c_bands)])

S2L1CReader_get_band_url(self, band) ==
    LET name == s2_band_name(band)
    IN  IF name.status = "raise" THEN name
        ELSE IF ~PyIn(name.val, self.bands) THEN Raise("InvalidBandName")
        ELSE Ok("s3://sentinel-s2-l1c/" \o s2_jp2_prefix(self.scene_params) \o "/"
                \o name.val \o ".jp2")

S2L2AReader_init(input) ==
    LET parsed == s2_sceneid_parser(input)
    IN  IF parsed.status = "raise" THEN parsed
        ELSE Ok([input |-> input, scene_params |-> parsed.val,
                 bands |-> Tuple(default_l2a_bands)])

\* S2L2AReader._get_resolution: the first table entry holding the band
FirstWith(table, band) ==
    LET hits == {i \in 1..Len(table) : band \in Range(table[i].bands)}
    IN  IF hits = {} THEN "" ELSE table[CHOOSE i \in hits : \A j \in hits : i <= j].res

S2L2AReader_get_resolution(band) ==
    IF StartsWith(band, "B") /\ FirstWith(SENTINEL_L2_BANDS, band) # ""
    THEN Ok(FirstWith(SENTINEL_L2_BANDS, band))
    ELSE IF FirstWith(SENTINEL_L2_PRODUCTS, band) # ""
    THEN Ok(FirstWith(SENTINEL_L2_PRODUCTS, band))
    ELSE Raise("ValueError")

S2L2AReader_get_band_url(self, band) ==
    LET name == s2_band_name(band)
        res == S2L2AReader_get_resolution(name.val)
    IN  IF name.status = "raise" THEN name
        ELSE IF ~PyIn(name.val, self.bands) THEN Raise("InvalidBandName")
        ELSE IF res.status = "raise" THEN res
        ELSE Ok("s3://sentinel-s2-l2a/" \o s2_jp2_prefix(self.scene_params) \o "/R"
                \o res.val \o "m/" \o name.val \o ".jp2")

\* S2L2ACOGReader.__attrs_post_init__ with the STAC item the fetch returned
S2L2ACOGReader_init(input, stac_item) ==
    LET parsed == s2_sceneid_parser(input)
        InAssets(band) == band \in stac_item.assets
        NameInAssets(item) == item[2] \in stac_item.assets
        mapped == SelectSeq(sentinel_l2a_band_map, NameInAssets)
    IN  IF parsed.status = "raise" THEN parsed
        ELSE Ok([input |-> input, scene_params |-> parsed.val,
                 bands |-> IF stac_item.stac_version = "1.0.0-beta.2"
                           THEN Tuple(SelectSeq(default_l2a_bands, InAssets))
                           ELSE Tuple([i \in 1..Len(mapped) |-> mapped[i][1]])])

S2L2ACOGReader_get_band_url(self, band) ==
    LET name == s2_band_name(band)
    IN  IF name.status = "raise" THEN name
        ELSE IF ~PyIn(name.val, self.bands) THEN Raise("InvalidBandName")
        ELSE Ok("s3://sentinel-cogs/" \o s2_cog_prefix(self.scene_params) \o "/"
                \o name.val \o ".tif")

(***************************************************************************)
(* MODIS readers                                                           *)
(***************************************************************************)
MCD43A4_BANDS ==
    <<"B01", "B01qa", "B02", "B02qa", "B03", "B03qa", "B04", "B04qa", "B05", "B05qa",
      "B06", "B06qa", "B07", "B07qa">>

MOD09GQ_MYD09GQ_BANDS ==
    <<"B01", "B02", "granule", "numobs", "obscov", "obsnum", "orbit", "qc">>

MOD09GA_MYD09GA_BAND ==
    <<"B01", "B02", "B03", "B04", "B05", "B06", "B07", "geoflags", "granule", "numobs1km",
      "numobs500m", "obscov", "obsnum", "orbit", "qc500m", "qscan", "range", "senaz",
      "senzen", "solaz", "solzen", "state">>

MODIS_BANDS ==
    <<"B01", "B02", "B03", "B04", "B05", "B06", "B07", "B08", "B09", "B10", "B11", "B12">>

\* modis_pds.modis_valid_bands; <<>> stands for a product the table does not hold
pds_modis_valid_bands(product) ==
    CASE product = "MCD43A4" -> MCD43A4_BANDS
      [] product \in {"MOD09GQ", "MYD09GQ"} -> MOD09GQ_MYD09GQ_BANDS
      [] product \in {"MOD09GA", "MYD09GA"} -> MOD09GA_MYD09GA_BAND
      [] OTHER -> <<>>

\* modis_astraea.modis_valid_bands
astraea_modis_valid_bands(product) ==
    CASE product = "MCD43A4" -> MCD43A4_BANDS
      [] product \in {"MOD11A1", "MYD11A1", "MOD13A1", "MYD13A1"} -> MODIS_BANDS
      [] OTHER -> <<>>

MOD11A1_MYD11A1_PREFIX ==
    <<"LSTD_", "QCD_", "DVT_", "DVA_", "LSTN_", "QCN_", "NVT_", "NVA_", "E31_", "E32_",
      "CDC_", "CNC_">>

MOD13A1_MYD13A1_PREFIX ==
    <<"NDVI_", "EVI_", "VIQ_", "RR_", "NIRR_", "BR_", "MIRR_", "VZA_", "SZA_", "RAA_",
      "CDOY_", "PR_">>

\* the key of band in MODIS_BANDS, the order both prefix tables are declared in
BandIndex(band) == CHOOSE i \in 1..Len(MODIS_BANDS) : MODIS_BANDS[i] = band

\* f"B0{band[-1]}" if band.startswith("B") and len(band) < 3 else band
modis_band_name(band) ==
    IF StartsWith(band, "B") /\ Len(band) < 3 THEN "B0" \o Char(band, Len(band)) ELSE band

\* prefix_pattern of both MODIS readers, formatted with the scene parameters
modis_prefix(p) ==
    p.product \o "." \o p.version \o "/" \o p.horizontal_grid \o "/" \o p.vertical_grid
    \o "/" \o p.date

\* modis_pds.MODISReader.__attrs_post_init__
MODISPDSReader_init(input) ==
    LET parsed == modis_sceneid_parser(input)
    IN  IF parsed.status = "raise" THEN parsed
        ELSE IF pds_modis_valid_bands(parsed.val.product) = <<>>
        THEN Raise("InvalidMODISProduct")
        ELSE Ok([input |-> input, scene_params |-> parsed.val,
                 bands |-> Tuple(pds_modis_valid_bands(parsed.val.product))])

MODISPDSReader_get_band_url(self, band) ==
    LET name == modis_band_name(band)
    IN  IF ~PyIn(name, self.bands) THEN Raise("InvalidBandName")
        ELSE Ok("s3://modis-pds/" \o modis_prefix(self.scene_params) \o "/" \o self.input
                \o "_" \o name \o ".TIF")

\* modis_astraea.MODISReader.__attrs_post_init__
MODISAstraeaReader_init(input) ==
    LET parsed == modis_sceneid_parser(input)
    IN  IF parsed.status = "raise" THEN parsed
        ELSE IF astraea_modis_valid_bands(parsed.val.product) = <<>>
        THEN Raise("InvalidMODISProduct")
        ELSE Ok([input |-> input, scene_params |-> parsed.val,
                 bands |-> Tuple(astraea_modis_valid_bands(parsed.val.product))])

MODISAstraeaReader_get_band_url(self, band) ==
    LET name == modis_band_name(band)
        product == self.scene_params.product
        band_prefix == IF product \in {"MOD11A1", "MYD11A1"}
                       THEN MOD11A1_MYD11A1_PREFIX[BandIndex(name)]
                       ELSE IF product \in {"MOD13A1", "MYD13A1"}
                       THEN MOD13A1_MYD13A1_PREFIX[BandIndex(name)]
                       ELSE ""
    IN  IF ~PyIn(name, self.bands) THEN Raise("InvalidBandName")
        ELSE Ok("s3://astraea-opendata/" \o modis_prefix(self.scene_params) \o "/"
                \o self.input \o "_" \o band_prefix \o name \o ".TIF")

(***************************************************************************)
(* CBERS readers                                                           *)
(***************************************************************************)
\* cbers4.CBERSReader._get_band_url
CBERSReader_get_band_url(self, band) ==
    LET p == self.scene_params
    IN  IF ~PyIn(band, self.bands) THEN Raise("InvalidBandName")
        ELSE Ok("s3://cbers-pds/CBERS" \o p.mission \o "/" \o p.instrument \o "/" \o p.path
                \o "/" \o p.row \o "/" \o p.scene \o "/" \o self.input \o "_"
                \o StrReplace(band, "B", "BAND") \o ".tif")

\* cbers4.CBERSReader.__attrs_post_init__: the reference band is resolved first
CBERSReader_init(input) ==
    LET parsed == cbers_sceneid_parser(input)
        self == [input |-> input, scene_params |-> parsed.val, bands |-> parsed.val.bands]
        ref == CBERSReader_get_band_url(self, parsed.val.reference_band)
    IN  IF parsed.status = "raise" THEN parsed
        ELSE IF ref.status = "raise" THEN ref
        ELSE Ok(self)

\* awspds_cbers.AWSPDS_CBERSReader._get_asset_url
AWSPDS_CBERSReader_get_asset_url(self, asset) ==
    LET p == self.scene_params
    IN  IF ~PyIn(asset, self.bands) THEN Raise("InvalidAssetName")
        ELSE Ok("s3://cbers-pds/CBERS4/" \o p.instrument \o "/" \o p.path \o "/" \o p.row
                \o "/" \o p.scene \o "/" \o self.input \o "_"
                \o StrReplace(asset, "B", "BAND") \o ".tif")

\* awspds_cbers.AWSPDS_CBERSReader.__enter__; self.assets is kept in the bands field
AWSPDS_CBERSReader_enter(sceneid) ==
    LET parsed == cbers_parser(sceneid)
        self == [input |-> sceneid, scene_params |-> parsed.val,
                 bands |-> parsed.val.bands]
        ref == AWSPDS_CBERSReader_get_asset_url(self, parsed.val.reference_band)
    IN  IF parsed.status = "raise" THEN parsed
        ELSE IF ref.status = "raise" THEN ref
        ELSE Ok(self)

(***************************************************************************)
(* Landsat Collection 2 reader                                             *)
(***************************************************************************)
\* landsat_collection2.py declares its own copies of the Level-2 tables
OLI_TIRS_SR_BANDS ==
    <<"QA_PIXEL", "QA_RADSAT", "SR_B1", "SR_B2", "SR_B3", "SR_B4", "SR_B5", "SR_B6",
      "SR_B7", "SR_QA_AEROSOL">>

OLI_TIRS_ST_BANDS ==
    <<"ST_ATRAN", "ST_B10", "ST_CDIST", "ST_DRAD", "ST_EMIS", "ST_EMSD", "ST_QA", "ST_TRAD",
      "ST_URAD">>

C2_TM_SR_BANDS ==
    <<"QA_PIXEL", "QA_RADSAT", "SR_ATMOS_OPACITY", "SR_B1", "SR_B2", "SR_B3", "SR_B4",
      "SR_B5", "SR_B7", "SR_CLOUD_QA">>

C2_TM_ST_BANDS ==
    <<"ST_ATRAN", "ST_B6", "ST_CDIST", "ST_DRAD", "ST_EMIS", "ST_EMSD", "ST_QA", "ST_TRAD",
      "ST_URAD">>

\* the band selection of LandsatC2L2Reader.__attrs_post_init__
c2_bands(processing_level, sensor_name) ==
    IF processing_level = "L2SR"
    THEN IF sensor_name \in {"oli-tirs", "oli"} THEN Bound(OLI_TIRS_SR_BANDS)
         ELSE IF sensor_name \in {"tm", "etm"} THEN Bound(C2_TM_SR_BANDS)
         ELSE Unbound
    ELSE IF sensor_name = "oli-tirs" THEN Bound(OLI_TIRS_SR_BANDS \o OLI_TIRS_ST_BANDS)
         ELSE IF sensor_name \in {"tm", "etm"} THEN Bound(C2_TM_SR_BANDS \o C2_TM_ST_BANDS)
         ELSE Unbound

\* LandsatC2L2Reader.__attrs_post_init__ (get_geometry fetches the bounds only)
LandsatC2L2Reader_init(sceneid) ==
    LET parsed == landsat_sceneid_parser(sceneid)
    IN  IF parsed.status = "raise" THEN parsed
        ELSE Ok([input |-> sceneid, scene_params |-> parsed.val,
                 bands |-> c2_bands(parsed.val.processingCorrectionLevel,
                                    parsed.val.sensor_name)])

\* LandsatC2L2Reader._prefix, formatted with the scene parameters
c2_prefix(p) ==
    "collection02/level-" \o p._processingLevelNum \o "/standard/" \o p.sensor_name \o "/"
    \o p.acquisitionYear \o "/" \o p.path \o "/" \o p.row \o "/" \o p.scene \o "/" \o p.scene

\* LandsatC2L2Reader._get_band_url; reading an attribute never set is an AttributeError
LandsatC2L2Reader_get_band_url(self, band) ==
    IF self.bands = Unbound THEN Raise("AttributeError")
    ELSE IF band \notin Range(self.bands.bands) THEN Raise("InvalidBandName")
    ELSE Ok("s3://usgs-landsat/" \o c2_prefix(self.scene_params) \o "_" \o band \o ".TIF")

\* landsat_collection2.LandsatC2Reader: only level-2 scenes get a reader
LandsatC2Reader(sceneid) ==
    LET parsed == landsat_sceneid_parser(sceneid)
    IN  IF parsed.status = "raise" THEN parsed
        ELSE IF parsed.val._processingLevelNum = "2" THEN LandsatC2L2Reader_init(sceneid)
        ELSE Raise("NotImplementedError")

(***************************************************************************)
(* The functions that pick a Sentinel reader class for a scene id.  The    *)
(* result names the class whose constructor is called.                     *)
(***************************************************************************)
Chosen(class, sceneid) == Ok([class |-> class, input |-> sceneid])

\* the two expressions SentinelReader matches a Sentinel-2 id against
dispatch_legacy ==
    <<Lit("S2"), Rep("", {"A", "B"}, 1, 1), Lit("_")>> \o Level("")
    \o <<Lit("_"), D("", 8), Lit("_"), D("", 2), Rep("", Upper, 3, 3), Lit("_"), D("", 1)>>

dispatch_new ==
    <<Lit("S2"), Rep("", {"A", "B"}, 1, 1), Lit("_"), D("", 2), Rep("", Upper, 3, 3),
      Lit("_"), D("", 8), Lit("_"), D("", 1), Lit("_")>> \o Level("")

\* rio_tiler_pds.sentinel.aws.SentinelReader
SentinelReader(sceneid) ==
    LET legacy == ReMatch(dispatch_legacy, sceneid, FALSE) # NoMatch
        metadata == s2_sceneid_parser(sceneid)
    IN  IF StartsWith(sceneid, "S1") THEN Chosen("S1CReader", sceneid)
        ELSE IF legacy /\ metadata.status = "raise" THEN metadata
        ELSE IF legacy /\ metadata.val.processingLevel = "L1C"
             THEN Chosen("S2L1CReader", sceneid)
        ELSE IF legacy /\ metadata.val.processingLevel = "L2A"
             THEN Chosen("S2L2AReader", sceneid)
        ELSE IF ReMatch(dispatch_new, sceneid, FALSE) # NoMatch
             THEN Chosen("S2L2ACOGReader", sceneid)
        ELSE Raise("InvalidSentinelSceneId")

\* rio_tiler_pds.sentinel.aws.sentinel2.S2COGReader
S2COGReader(sceneid) ==
    LET scene_params == s2_sceneid_parser(sceneid)
    IN  IF scene_params.status = "raise" THEN scene_params
        ELSE IF scene_params.val.processingLevel = "L2A"
             THEN Chosen("S2L2ACOGReader", sceneid)
        ELSE Raise("Exception")

\* rio_tiler_pds.sentinel.aws.sentinel2.S2JP2Reader
S2JP2Reader(sceneid) ==
    LET scene_params == s2_sceneid_parser(sceneid)
    IN  IF scene_params.status = "raise" THEN scene_params
        ELSE IF scene_params.val.processingLevel = "L2A" THEN Chosen("S2L2AReader", sceneid)
        ELSE IF scene_params.val.processingLevel = "L1C" THEN Chosen("S2L1CReader", sceneid)
        ELSE Raise("Exception")

(***************************************************************************)
(* Scene ids handed to the parsers: every id is a concatenation of field   *)
(* choices, well-formed and malformed ones alike.                          *)
(***************************************************************************)
CBERSIds ==
    {"CBERS_" \o mission \o "_" \o instrument \o "_20171121_057_094_" \o level :
        mission \in {"4", "4A", "5"},
        instrument \in {"MUX", "AWFI", "PAN10M", "PAN5M", "WPM", "XYZ"},
        level \in {"L2", "L4", "2"}}

LandsatIds ==
    {sensor \o satellite \o "_" \o level \o "_001062_20201031_20201106_02_" \o category :
        sensor \in {"LC", "LO", "LT", "LE", "LM", "LX"},
        satellite \in {"05", "08"},
        level \in {"L1TP", "L2SP", "L2SR", "L2AB"},
        category \in {"T1", "A1"}}

MODISIds ==
    {product \o ".A2017006.h" \o grid \o "." \o version \o ".2017018074804" :
        product \in {"MCD43A4", "MOD09GA", "MOD09GQ", "MYD11A1", "MOD13A1", "MXD09GQ"},
        grid \in {"21v11", "08v05", "8v5"},
        version \in {"006", "061", "6"}}

S1Ids ==
    {"S1" \o satellite \o "_" \o beam \o "_GRDH_1S" \o polarisation
        \o "_20180716T004042_20180716T004107_" \o orbit \o "_02792A_FD5B" :
        satellite \in {"A", "B"},
        beam \in {"IW", "EW", "SM"},
        polarisation \in {"SH", "SV", "DH", "DV", "HH", "VV"},
        orbit \in {"022812", "02281A"}}

S2Sats == {"A", "B"}
S2Tiles == {"29RKH", "05ABC", "5ABC"}
S2Dates == {"20200219", "20171005"}
S2Nums == {"0", "1"}
S2Levels == {"L1C", "L2A"}

\* the three forms of a Sentinel-2 scene id
S2Legacy(sat, level, date, tile, num) ==
    "S2" \o sat \o "_" \o level \o "_" \o date \o "_" \o tile \o "_" \o num
S2New(sat, level, date, tile, num) ==
    "S2" \o sat \o "_" \o tile \o "_" \o date \o "_" \o num \o "_" \o level
S2Product(sat, level, date, tile) ==
    "S2" \o sat \o "_MSI" \o level \o "_" \o date \o "T190919_N0212_R056_T" \o tile
         \o "_20201005T200819"

S2Ids ==
    {S2Legacy(sat, level, date, tile, num) :
        sat \in S2Sats, level \in S2Levels, date \in S2Dates, tile \in S2Tiles, num \in S2Nums}
    \cup {S2New(sat, level, date, tile, num) :
        sat \in S2Sats, level \in S2Levels, date \in S2Dates, tile \in S2Tiles, num \in S2Nums}
    \cup {S2Product(sat, level, date, tile) :
        sat \in S2Sats, level \in S2Levels, date \in S2Dates,
        tile \in S2Tiles \cup {"ABCDE", "5ABCD"}}
    \cup {"S2A_L2A", "S2C_29RKH_20200219_0_L2A"}

\* the ids handed to the functions that pick a reader: Sentinel-2 ids of every
\* form and level, and a Sentinel-1 id
DispatchIds ==
    S2Ids
    \cup {S2Legacy("B", level, "20170729", "19UDP", "0") : level \in {"L1B", "L2C"}}
    \cup {S2New("A", "L2C", "20200219", "29RKH", "0"),
          "S1A_IW_GRDH_1SDV_20180716T004042_20180716T004107_022812_02792A_FD5B"}

(***************************************************************************)
(* Specification of the parsers: one action per scene-id parser.           *)
(***************************************************************************)
Idle == [op |-> "idle"]

Parsed(parser, sceneid, out) == [op |-> parser, sceneid |-> sceneid, out |-> out]

UrlIdle == rdr = Idle /\ url = Idle /\ opts = Idle

DemIdle == dem = Idle

ReadIdle ==
    /\ rd_reader = Idle /\ rd_call = Idle /\ rd_pc = "idle"
    /\ rd_bands = <<>> /\ rd_tasks = <<>> /\ rd_log = <<>> /\ rd_out = Idle
    /\ rd_masks = <<>>

CacheIdle ==
    /\ cache_keys = <<>> /\ cache_calls = <<>> /\ cache_used = <<>> /\ cache_clock = 0

InitParse == ps = Idle /\ UrlIdle /\ DemIdle /\ ReadIdle /\ CacheIdle

ParseCBERS ==
    /\ ps = Idle
    /\ \E sceneid \in CBERSIds : ps' = Parsed("cbers", sceneid, cbers_sceneid_parser(sceneid))
    /\ UNCHANGED <<urlVars, demVars, readVars, cacheVars>>

ParseAWSPDSCBERS ==
    /\ ps = Idle
    /\ \E sceneid \in CBERSIds : ps' = Parsed("awspds_cbers", sceneid, cbers_parser(sceneid))
    /\ UNCHANGED <<urlVars, demVars, readVars, cacheVars>>

ParseLandsat ==
    /\ ps = Idle
    /\ \E sceneid \in LandsatIds :
          ps' = Parsed("landsat", sceneid, landsat_sceneid_parser(sceneid))
    /\ UNCHANGED <<urlVars, demVars, readVars, cacheVars>>

ParseMODIS ==
    /\ ps = Idle
    /\ \E sceneid \in MODISIds : ps' = Parsed("modis", sceneid, modis_sceneid_parser(sceneid))
    /\ UNCHANGED <<urlVars, demVars, readVars, cacheVars>>

ParseS1 ==
    /\ ps = Idle
    /\ \E sceneid \in S1Ids : ps' = Parsed("s1", sceneid, s1_sceneid_parser(sceneid))
    /\ UNCHANGED <<urlVars, demVars, readVars, cacheVars>>

ParseS2 ==
    /\ ps = Idle
    /\ \E sceneid \in S2Ids : ps' = Parsed("s2", sceneid, s2_sceneid_parser(sceneid))
    /\ UNCHANGED <<urlVars, demVars, readVars, cacheVars>>

\* the caller takes the outcome of the call; the parsers keep no state between calls
ParseReturn ==
    /\ ps # Idle
    /\ ps' = Idle
    /\ UNCHANGED <<urlVars, demVars, readVars, cacheVars>>

NextParse ==
    \/ ParseReturn
    \/ ParseCBERS
    \/ ParseAWSPDSCBERS
    \/ ParseLandsat
    \/ ParseMODIS
    \/ ParseS1
    \/ ParseS2

SpecParse == InitParse /\ [][NextParse]_vars

\* the exception class each parser documents for an id it does not recognise
FamilyError(parser) ==
    CASE parser \in {"cbers", "awspds_cbers"} -> "InvalidCBERSSceneId"
      [] parser = "landsat" -> "InvalidLandsatSceneId"
      [] parser = "modis" -> "InvalidMODISSceneId"
      [] parser \in {"s1", "s2"} -> "InvalidSentinelSceneId"

\* C5: every scene-id parser either returns a mapping or raises its family's
\* Invalid...SceneId error; no KeyError, AttributeError or unbound-variable
\* error escapes a parser.
C5_ParsersRaiseOnlyFamilyError ==
    (ps # Idle /\ ps.out.status = "raise") => ps.out.exc = FamilyError(ps.op)

(***************************************************************************)
(* Specification of the readers: a reader is opened on a scene id, asked   *)
(* for band URLs, and closed.                                              *)
(***************************************************************************)
\* STAC items the sentinel-cogs bucket serves: the old layout keyed by band name, the
\* 1.0.0 layout keyed by common name, and an item that lacks some assets
S2StacItems ==
    {[stac_version |-> "1.0.0-beta.2",
      assets |-> Range(default_l2a_bands) \cup {"AOT", "SCL", "thumbnail"}],
     [stac_version |-> "1.0.0",
      assets |-> {sentinel_l2a_band_map[i][2] : i \in 1..Len(sentinel_l2a_band_map)}
                 \cup {"aot", "scl", "thumbnail"}],
     [stac_version |-> "1.0.0", assets |-> {"blue", "green", "red", "nir08", "thumbnail"}]}

ShortAliases == {"B1", "B2", "B3", "B4", "B5", "B6", "B7", "B8", "B9"}

S2BandInputs ==
    Range(default_l1c_bands) \cup ShortAliases
    \cup {"", "B", "5", "BAND5", "XYZ5", "B10", "AOT", "b05"}

MODISBandInputs ==
    Range(MCD43A4_BANDS) \cup Range(MODIS_BANDS) \cup ShortAliases
    \cup {"", "B", "1", "granule", "qc", "BAND5"}

CBERSBandInputs ==
    {"B0", "B1", "B2", "B3", "B4", "B5", "B6", "B7", "B8", "B13", "B14", "B15", "B16"}
    \cup {"", "B", "1", "BAND5", "5"}

LandsatBandInputs ==
    Range(OLI_TIRS_SR_BANDS) \cup Range(OLI_TIRS_ST_BANDS) \cup Range(C2_TM_SR_BANDS)
    \cup Range(C2_TM_ST_BANDS) \cup {"", "B1", "B10", "SR_B8"}

Opened(class, out) == [op |-> class, out |-> out]

Resolved(band, out) == [band |-> band, out |-> out]

InitUrl == UrlIdle /\ ps = Idle /\ DemIdle /\ ReadIdle /\ CacheIdle

Open(class, out) ==
    /\ rdr = Idle
    /\ rdr' = Opened(class, out)
    /\ url' = Idle
    /\ UNCHANGED <<opts, parseVars, demVars, readVars, cacheVars>>

OpenS2L1C == \E input \in S2Ids : Open("S2L1CReader", S2L1CReader_init(input))

OpenS2L2A == \E input \in S2Ids : Open("S2L2AReader", S2L2AReader_init(input))

OpenS2L2ACOG ==
    \E input \in S2Ids, stac_item \in S2StacItems :
        Open("S2L2ACOGReader", S2L2ACOGReader_init(input, stac_item))

OpenMODISPDS == \E input \in MODISIds : Open("MODISPDSReader", MODISPDSReader_init(input))

OpenMODISAstraea ==
    \E input \in MODISIds : Open("MODISAstraeaReader", MODISAstraeaReader_init(input))

OpenCBERS == \E input \in CBERSIds : Open("CBERSReader", CBERSReader_init(input))

OpenAWSPDSCBERS ==
    \E sceneid \in CBERSIds : Open("AWSPDS_CBERSReader", AWSPDS_CBERSReader_enter(sceneid))

OpenLandsatC2L2 ==
    \E sceneid \in LandsatIds : Open("LandsatC2L2Reader", LandsatC2L2Reader_init(sceneid))

OpenLandsatC2 ==
    \E sceneid \in LandsatIds : Open("LandsatC2Reader", LandsatC2Reader(sceneid))

\* a call of one of the functions that pick a reader class
Pick(function, sceneid, out) ==
    /\ rdr = Idle
    /\ rdr' = [op |-> function, input |-> sceneid, out |-> out]
    /\ url' = Idle
    /\ UNCHANGED <<opts, parseVars, demVars, readVars, cacheVars>>

PickSentinelReader ==
    \E sceneid \in DispatchIds : Pick("SentinelReader", sceneid, SentinelReader(sceneid))

PickS2COGReader ==
    \E sceneid \in DispatchIds : Pick("S2COGReader", sceneid, S2COGReader(sceneid))

PickS2JP2Reader ==
    \E sceneid \in DispatchIds : Pick("S2JP2Reader", sceneid, S2JP2Reader(sceneid))

\* one call of the reader's URL resolver; the reader is left as it was
Resolve(classes, band, out) ==
    /\ rdr # Idle /\ rdr.op \in classes /\ rdr.out.status = "ok"
    /\ url = Idle
    /\ url' = Resolved(band, out)
    /\ UNCHANGED <<rdr, opts, parseVars, demVars, readVars, cacheVars>>

GetBandUrlS2L1C ==
    \E band \in S2BandInputs :
        Resolve({"S2L1CReader"}, band, S2L1CReader_get_band_url(rdr.out.val, band))

GetBandUrlS2L2A ==
    \E band \in S2BandInputs :
        Resolve({"S2L2AReader"}, band, S2L2AReader_get_band_url(rdr.out.val, band))

GetBandUrlS2L2ACOG ==
    \E band \in S2BandInputs :
        Resolve({"S2L2ACOGReader"}, band, S2L2ACOGReader_get_band_url(rdr.out.val, band))

GetBandUrlMODISPDS ==
    \E band \in MODISBandInputs :
        Resolve({"MODISPDSReader"}, band, MODISPDSReader_get_band_url(rdr.out.val, band))

GetBandUrlMODISAstraea ==
    \E band \in MODISBandInputs :
        Resolve({"MODISAstraeaReader"}, band,
                MODISAstraeaReader_get_band_url(rdr.out.val, band))

GetBandUrlCBERS ==
    \E band \in CBERSBandInputs :
        Resolve({"CBERSReader"}, band, CBERSReader_get_band_url(rdr.out.val, band))

GetAssetUrlAWSPDSCBERS ==
    \E asset \in CBERSBandInputs :
        Resolve({"AWSPDS_CBERSReader"}, asset,
                AWSPDS_CBERSReader_get_asset_url(rdr.out.val, asset))

GetBandUrlLandsatC2L2 ==
    \E band \in LandsatBandInputs :
        Resolve({"LandsatC2L2Reader", "LandsatC2Reader"}, band,
                LandsatC2L2Reader_get_band_url(rdr.out.val, band))

\* the caller takes the URL (or the error) and may ask for another band
UrlReturn ==
    /\ url # Idle
    /\ url' = Idle
    /\ UNCHANGED <<opts, rdr, parseVars, demVars, readVars, cacheVars>>

\* the with-block ends, or the constructor's error reaches the caller
Close ==
    /\ rdr # Idle
    /\ rdr' = Idle
    /\ url' = Idle
    /\ UNCHANGED <<opts, parseVars, demVars, readVars, cacheVars>>

NextUrl ==
    \/ OpenS2L1C
    \/ OpenS2L2A
    \/ OpenS2L2ACOG
    \/ OpenMODISPDS
    \/ OpenMODISAstraea
    \/ OpenCBERS
    \/ OpenAWSPDSCBERS
    \/ OpenLandsatC2L2
    \/ PickSentinelReader
    \/ PickS2COGReader
    \/ PickS2JP2Reader
    \/ OpenLandsatC2
    \/ GetBandUrlS2L1C
    \/ GetBandUrlS2L2A
    \/ GetBandUrlS2L2ACOG
    \/ GetBandUrlMODISPDS
    \/ GetBandUrlMODISAstraea
    \/ GetBandUrlCBERS
    \/ GetAssetUrlAWSPDSCBERS
    \/ GetBandUrlLandsatC2L2
    \/ UrlReturn
    \/ Close

SpecUrl == InitUrl /\ [][NextUrl]_vars

(***************************************************************************)
(* Properties of the readers                                               *)
(***************************************************************************)
S2Classes == {"S2L1CReader", "S2L2AReader", "S2L2ACOGReader"}

MODISClasses == {"MODISPDSReader", "MODISAstraeaReader"}

CBERSClasses == {"CBERSReader", "AWSPDS_CBERSReader"}

LandsatClasses == {"LandsatC2L2Reader", "LandsatC2Reader"}

\* a reader of one of the classes is open and has answered one URL request
Answered(classes) ==
    /\ rdr # Idle /\ rdr.op \in classes /\ rdr.out.status = "ok"
    /\ url # Idle

\* the reader is open
IsOpen(classes) == rdr # Idle /\ rdr.op \in classes /\ rdr.out.status = "ok"

\* the long form B0<d> of a short alias B<d>
LongName(alias) == "B0" \o Char(alias, 2)

\* the URL resolver of the open reader, applied to another band name
SameReaderUrl(band) ==
    CASE rdr.op = "S2L1CReader" -> S2L1CReader_get_band_url(rdr.out.val, band)
      [] rdr.op = "S2L2AReader" -> S2L2AReader_get_band_url(rdr.out.val, band)
      [] rdr.op = "S2L2ACOGReader" -> S2L2ACOGReader_get_band_url(rdr.out.val, band)
      [] rdr.op = "MODISPDSReader" -> MODISPDSReader_get_band_url(rdr.out.val, band)
      [] rdr.op = "MODISAstraeaReader" -> MODISAstraeaReader_get_band_url(rdr.out.val, band)

\* C3: a Sentinel-2 reader resolves a name to a URL only if the name is in the
\* reader's catalog or is the short alias B<d> of a catalog band B0<d>; every
\* other name (a name of length other than 3 ending in a digit, the empty
\* string) raises InvalidBandName.
C3_S2UrlOnlyForCatalogOrAlias ==
    Answered(S2Classes) =>
        LET catalog == Range(rdr.out.val.bands.seq)
            named == \/ url.band \in catalog
                     \/ url.band \in ShortAliases /\ LongName(url.band) \in catalog
        IN  ~named => url.out = Raise("InvalidBandName")

\* C4: the alias is normalised before the catalog is consulted: when B0<d> is in
\* the catalog of a Sentinel-2 or MODIS reader, asking for B<d> succeeds and gives
\* the URL that asking for B0<d> gives.
C4_AliasResolvesLikeLongName ==
    (/\ Answered(S2Classes \cup MODISClasses)
     /\ url.band \in ShortAliases
     /\ LongName(url.band) \in Range(rdr.out.val.bands.seq))
    => /\ url.out.status = "ok"
       /\ url.out = SameReaderUrl(LongName(url.band))

C4_Witness ==
    /\ Answered(MODISClasses)
    /\ url.band = "B7"
    /\ "B07" \in Range(rdr.out.val.bands.seq)
    /\ url.out.status = "ok"

\* the Level-2 catalogs the Landsat tables declare for a sensor
LandsatSR(sensor_name) ==
    IF sensor_name \in {"oli-tirs", "oli"} THEN OLI_SR_BANDS ELSE TM_SR_BANDS

LandsatST(sensor_name) ==
    IF sensor_name = "oli-tirs" THEN TIRS_ST_BANDS ELSE TM_ST_BANDS

\* C6: the Landsat catalog is a function of (processing level, sensor name): the
\* surface-reflectance group for L2SR, that group followed by the
\* surface-temperature group for L2SP; and for every accepted scene of level
\* number 2 the catalog of LandsatC2L2Reader is the catalog sceneid_parser returns.
C6_C2CatalogIsParserCatalog ==
    (IsOpen(LandsatClasses) /\ rdr.out.val.scene_params._processingLevelNum = "2")
    => LET p == rdr.out.val.scene_params
           bands == rdr.out.val.bands
       IN  /\ p.processingCorrectionLevel = "L2SR" => p.bands = LandsatSR(p.sensor_name)
           /\ p.processingCorrectionLevel = "L2SP"
                => p.bands = LandsatSR(p.sensor_name) \o LandsatST(p.sensor_name)
           /\ bands.bound /\ bands.bands = p.bands

\* C7: the catalog of a CBERS reader is the declared sequence of whole band names
\* of the instrument, and the resolver accepts a name only if it equals one
\* element: "B", "1", "" and "BAND5" are refused for every instrument, by both
\* readers.
C7_CBERSCatalogOfWholeNames ==
    IsOpen(CBERSClasses)
    => /\ rdr.out.val.bands = cbers_instrument_params(rdr.out.val.scene_params.instrument).bands
       /\ (url # Idle /\ url.band \in {"B", "1", "", "BAND5"}) => url.out.status = "raise"
       /\ (url # Idle /\ url.out.status = "ok")
            => \E i \in 1..Len(rdr.out.val.bands.seq) : rdr.out.val.bands.seq[i] = url.band

\* the ids that name the L2A scene (sat, tile, date, num): the legacy and the new
\* form, and, for scene index "0", the product id, which carries no index
IdsOfScene(sat, tile, date, num) ==
    {S2Legacy(sat, "L2A", date, tile, num), S2New(sat, "L2A", date, tile, num)}
    \cup (IF num = "0" THEN {S2Product(sat, "L2A", date, tile)} ELSE {})

\* the ids of the L2A scenes of one satellite, tile and date, whatever their index
IdsOfAcquisition(sat, tile, date) ==
    {S2Legacy(sat, "L2A", date, tile, num) : num \in S2Nums}
    \cup {S2New(sat, "L2A", date, tile, num) : num \in S2Nums}
    \cup {S2Product(sat, "L2A", date, tile)}

\* the URL of a band in the sentinel-cogs bucket, written from the fields of the
\* acquisition: zero-stripped UTM zone and month, and the new-format id
CogUrl(sat, tile, date, num, band) ==
    LET utm == LStripZero(SubSeq(tile, 1, Len(tile) - 3))
        grid == SubSeq(tile, Len(tile) - 2, Len(tile))
    IN  "s3://sentinel-cogs/sentinel-s2-l2a-cogs/" \o utm \o "/" \o Char(grid, 1) \o "/"
        \o SubSeq(grid, 2, 3) \o "/" \o SubSeq(date, 1, 4) \o "/"
        \o LStripZero(SubSeq(date, 5, 6)) \o "/"
        \o "S2" \o sat \o "_" \o utm \o grid \o "_" \o date \o "_" \o num \o "_L2A"
        \o "/" \o band \o ".tif"

\* a catalog band of the open S2L2ACOGReader has been resolved
CogBandResolved ==
    /\ Answered({"S2L2ACOGReader"})
    /\ url.band \in Range(rdr.out.val.bands.seq)

\* C8 as stated: the legacy id, the new id and the product id of one satellite,
\* tile and date resolve every catalog band of S2L2ACOGReader to one URL, the one
\* of the product id, whose scene index is "0".
C8_SameUrlForSatelliteTileDate ==
    CogBandResolved =>
        \A sat \in S2Sats, tile \in S2Tiles, date \in S2Dates :
            rdr.out.val.input \in IdsOfAcquisition(sat, tile, date)
            => url.out = Ok(CogUrl(sat, tile, date, "0", url.band))

\* C8, amended: the legacy id, the new id and the product id of one satellite,
\* tile, date and scene index (a product id standing for index "0") resolve every
\* catalog band of S2L2ACOGReader to one URL, whose key is built from the
\* zero-stripped UTM zone and month and the new-format id.
C8_SameUrlForEveryIdFormat ==
    CogBandResolved =>
        \A sat \in S2Sats, tile \in S2Tiles, date \in S2Dates, num \in S2Nums :
            rdr.out.val.input \in IdsOfScene(sat, tile, date, num)
            => url.out = Ok(CogUrl(sat, tile, date, num, url.band))

C8_Witness ==
    /\ CogBandResolved
    /\ rdr.out.val.input = S2Product("A", "L2A", "20200219", "05ABC")
    /\ url.out = Ok(CogUrl("A", "5ABC", "20200219", "0", "B8A"))

(***************************************************************************)
(* Copernicus DEM mosaic readers.  A coordinate is a number of tenths of a  *)
(* degree, so that 9.9 is 99 and -10.1 is -101.                            *)
(***************************************************************************)
MaxDegrees == 11

Coordinates == (0 - MaxDegrees * 10)..(MaxDegrees * 10)

\* math.floor of a coordinate, in whole degrees
Floor(t) == t \div 10

\* the bucket and the resolution code of the two mosaics
Dem30Reader == [class |-> "Dem30Reader", bucket |-> "copernicus-dem-30m", code |-> "10"]

Dem90Reader == [class |-> "Dem90Reader", bucket |-> "copernicus-dem-90m", code |-> "30"]

\* prefix_pattern.format(northsouth, eastwest, lat, lon), lat as 02d and lon as 03d
dem_prefix(self, northsouth, eastwest, lat, lon) ==
    LET name == "Copernicus_DSM_COG_" \o self.code \o "_" \o northsouth
                \o ZeroPad(IntToStr(lat), 2) \o "_00_" \o eastwest
                \o ZeroPad(IntToStr(lon), 3) \o "_00_DEM"
    IN  name \o "/" \o name

\* a resolver that takes the hemisphere letters after the coordinates were made positive
DatasetUrlLettersAfterAbs(self, lon, lat) ==
    "s3://" \o self.bucket \o "/"
    \o dem_prefix(self, "N", "E", Abs(Floor(lat)), Abs(Floor(lon))) \o ".tif"

\* a resolver that floors the magnitude of the coordinate
DatasetUrlFloorOfMagnitude(self, lon, lat) ==
    "s3://" \o self.bucket \o "/"
    \o dem_prefix(self, IF lat >= 0 THEN "N" ELSE "S", IF lon < 0 THEN "W" ELSE "E",
                  Floor(Abs(lat)), Floor(Abs(lon))) \o ".tif"

\* Dem30Reader._get_dataset_url
get_dataset_url(self, lon, lat) ==
    LET northsouth == IF lat >= 0 THEN "N" ELSE "S"
        eastwest == IF lon < 0 THEN "W" ELSE "E"
    IN  "s3://" \o self.bucket \o "/"
        \o dem_prefix(self, northsouth, eastwest, Abs(Floor(lat)), Abs(Floor(lon)))
        \o ".tif"

\* Dem30Reader.assets_for_point, for a point given in WGS84
assets_for_point(self, lon, lat) == <<get_dataset_url(self, lon, lat)>>

\* a coordinate of a bounding box is a double: a number of tenths of a degree
\* and, when `below` holds, less than that by a positive amount smaller than
\* half the spacing of the doubles around 180 (such as 1e-20).  Only around 0
\* are the doubles that dense.
BoxCoord(t, below) == [tenths |-> t, below |-> below]

BoxTenths == {-11, -10, -1, 0, 5, 100, 110}

BoxCoordinates == {BoxCoord(t, FALSE) : t \in BoxTenths} \cup {BoxCoord(0, TRUE)}

\* the widest box asked for, in degrees
MaxSpan == 2

BoxLeq(a, b) == a.tenths < b.tenths \/ (a.tenths = b.tenths /\ (a.below \/ ~b.below))

\* math.floor of a double
BoxFloor(c) == IF c.below /\ c.tenths % 10 = 0 THEN (c.tenths \div 10) - 1 ELSE c.tenths \div 10

\* int(c + k), k being 360 or 180: the sum is rounded to the nearest double,
\* which takes an amount below half the spacing away, and int() truncates
\* towards zero
IntOfSum(c, k) ==
    LET sum == c.tenths + 10 * k
    IN  IF sum >= 0 THEN sum \div 10 ELSE 0 - ((0 - sum) \div 10)

\* Dem30Reader.assets_for_bbox, for a box given in WGS84
assets_for_bbox(self, xmin, ymin, xmax, ymax) ==
    LET x0 == IntOfSum(xmin, 360)
        x1 == IntOfSum(xmax, 360)
        y1 == IntOfSum(ymax, 180)
        y0 == IntOfSum(ymin, 180)
        nx == x1 + 1 - x0
        ny == y1 + 1 - y0
    IN  IF nx <= 0 \/ ny <= 0 THEN <<>>
        ELSE [k \in 1..(nx * ny) |->
                get_dataset_url(self, (x0 + ((k - 1) \div ny) - 360) * 10,
                                (y0 + ((k - 1) % ny) - 180) * 10)]

\* Dem30Reader.assets_for_tile: the cells of the bounds of the tile
assets_for_tile(self, bounds) ==
    assets_for_bbox(self, bounds.xmin, bounds.ymin, bounds.xmax, bounds.ymax)

\* the bounds of the tiles asked for: inside one cell, over two cells of a
\* column, over four cells
TileBounds ==
    {[xmin |-> BoxCoord(5, FALSE), ymin |-> BoxCoord(5, FALSE),
      xmax |-> BoxCoord(5, FALSE), ymax |-> BoxCoord(5, FALSE)],
     [xmin |-> BoxCoord(100, FALSE), ymin |-> BoxCoord(100, FALSE),
      xmax |-> BoxCoord(100, FALSE), ymax |-> BoxCoord(110, FALSE)],
     [xmin |-> BoxCoord(-10, FALSE), ymin |-> BoxCoord(-10, FALSE),
      xmax |-> BoxCoord(0, FALSE), ymax |-> BoxCoord(0, FALSE)]}

\* the points asked for
PointInputs == {-101, -1, 0, 99}

\* what reading one cell gives: data for every pixel, data for some pixels, or
\* an error
ReadSuccesses == {"full", "partial"}

ReadErrors == {"TileOutsideBounds", "PointOutsideBounds", "RasterioIOError", "ValueError"}

ReadOutcomes == ReadSuccesses \cup ReadErrors

Reversed(seq) == [i \in 1..Len(seq) |-> seq[Len(seq) + 1 - i]]

\* a mosaic that takes the candidates in the order of the list whatever `reverse` says
AssetsAsListed(assets, reverse) == assets

\* mosaic_assets = list(reversed(assets)) if reverse else assets
mosaic_assets(assets, reverse) == IF reverse THEN Reversed(assets) ELSE assets

\* the allowed_exceptions of tile and of point
allowed_exceptions(op) ==
    IF op = "tile" THEN {"TileOutsideBounds", "RasterioIOError"}
    ELSE {"PointOutsideBounds", "RasterioIOError"}

Mosaic(status, exc, used, tried) ==
    [status |-> status, exc |-> exc, used |-> used, tried |-> tried]

\* rio_tiler.mosaic.mosaic_reader / mosaic_point_reader as tile and point call
\* them: the candidates are read in the order of the list, an allowed exception
\* is passed over, another one leaves the call, the first pixel selection stops
\* once every pixel has data, and a mosaic no candidate contributed to is an
\* EmptyMosaicError
RECURSIVE mosaic_reader(_, _, _, _, _)
mosaic_reader(assets, world, allowed, i, used) ==
    IF i > Len(assets)
    THEN IF used = <<>> THEN Mosaic("raise", "EmptyMosaicError", used, assets)
         ELSE Mosaic("ok", "", used, assets)
    ELSE LET asset == assets[i]
             tried == SubSeq(assets, 1, i)
         IN  IF world[asset] = "full" THEN Mosaic("ok", "", Append(used, asset), tried)
             ELSE IF world[asset] = "partial"
                  THEN mosaic_reader(assets, world, allowed, i + 1, Append(used, asset))
             ELSE IF world[asset] \in allowed
                  THEN mosaic_reader(assets, world, allowed, i + 1, used)
             ELSE Mosaic("raise", world[asset], used, tried)

InitDem == DemIdle /\ ps = Idle /\ UrlIdle /\ ReadIdle /\ CacheIdle

AssetsForPoint(self) ==
    /\ dem = Idle
    /\ \E lon \in Coordinates, lat \in Coordinates :
          dem' = [op |-> "assets_for_point", class |-> self.class, lon |-> lon, lat |-> lat,
                  out |-> assets_for_point(self, lon, lat)]
    /\ UNCHANGED <<parseVars, urlVars, readVars, cacheVars>>

\* the boxes asked for: xmin <= xmax, ymin <= ymax, at most MaxSpan degrees wide
AssetsForBbox(self) ==
    /\ dem = Idle
    /\ \E xmin \in BoxCoordinates, ymin \in BoxCoordinates,
          xmax \in BoxCoordinates, ymax \in BoxCoordinates :
          /\ BoxLeq(xmin, xmax) /\ BoxLeq(ymin, ymax)
          /\ xmax.tenths - xmin.tenths <= MaxSpan * 10
          /\ ymax.tenths - ymin.tenths <= MaxSpan * 10
          /\ dem' = [op |-> "assets_for_bbox", class |-> self.class,
                     xmin |-> xmin, ymin |-> ymin, xmax |-> xmax, ymax |-> ymax,
                     out |-> assets_for_bbox(self, xmin, ymin, xmax, ymax)]
    /\ UNCHANGED <<parseVars, urlVars, readVars, cacheVars>>

AssetsForBbox30 == AssetsForBbox(Dem30Reader)

AssetsForBbox90 == AssetsForBbox(Dem90Reader)

AssetsForPoint30 == AssetsForPoint(Dem30Reader)

AssetsForPoint90 == AssetsForPoint(Dem90Reader)

\* Dem30Reader.tile: `world` is what a read of each candidate gives
DemTile(self) ==
    /\ dem = Idle
    /\ \E bounds \in TileBounds, reverse \in BOOLEAN :
          LET assets == assets_for_tile(self, bounds)
          IN  \E world \in [Range(assets) -> ReadOutcomes] :
                 dem' = [op |-> "tile", class |-> self.class, reverse |-> reverse,
                         assets |-> assets, world |-> world,
                         out |-> mosaic_reader(mosaic_assets(assets, reverse), world,
                                               allowed_exceptions("tile"), 1, <<>>)]
    /\ UNCHANGED <<parseVars, urlVars, readVars, cacheVars>>

\* Dem30Reader.point
DemPoint(self) ==
    /\ dem = Idle
    /\ \E lon \in PointInputs, lat \in PointInputs, reverse \in BOOLEAN :
          LET assets == assets_for_point(self, lon, lat)
          IN  \E world \in [Range(assets) -> ReadOutcomes] :
                 dem' = [op |-> "point", class |-> self.class, reverse |-> reverse,
                         assets |-> assets, world |-> world,
                         out |-> mosaic_reader(mosaic_assets(assets, reverse), world,
                                               allowed_exceptions("point"), 1, <<>>)]
    /\ UNCHANGED <<parseVars, urlVars, readVars, cacheVars>>

DemTile30 == DemTile(Dem30Reader)

DemTile90 == DemTile(Dem90Reader)

DemPoint30 == DemPoint(Dem30Reader)

DemPoint90 == DemPoint(Dem90Reader)

\* the caller takes the list; the mosaic readers keep nothing between calls
DemReturn ==
    /\ dem # Idle
    /\ dem' = Idle
    /\ UNCHANGED <<parseVars, urlVars, readVars, cacheVars>>

NextDem ==
    \/ AssetsForPoint30
    \/ AssetsForPoint90
    \/ AssetsForBbox30
    \/ AssetsForBbox90
    \/ DemTile30
    \/ DemTile90
    \/ DemPoint30
    \/ DemPoint90
    \/ DemReturn

SpecDem == InitDem /\ [][NextDem]_vars

(***************************************************************************)
(* Properties of the DEM mosaic                                            *)
(***************************************************************************)
PointAnswered == dem # Idle /\ dem.op = "assets_for_point"

\* the name of the cell whose south-west corner is (x, y), in whole degrees
CellName(x, y) ==
    (IF y >= 0 THEN "N" ELSE "S") \o ZeroPad(IntToStr(Abs(y)), 2) \o "_00_"
    \o (IF x >= 0 THEN "E" ELSE "W") \o ZeroPad(IntToStr(Abs(x)), 3) \o "_00_DEM"

\* the reference of a cell in the mosaic of a class
CellUrl(class, x, y) ==
    LET name == "Copernicus_DSM_COG_" \o (IF class = "Dem30Reader" THEN "10" ELSE "30")
                \o "_" \o CellName(x, y)
    IN  "s3://" \o (IF class = "Dem30Reader" THEN "copernicus-dem-30m"
                    ELSE "copernicus-dem-90m") \o "/" \o name \o "/" \o name \o ".tif"

\* the point (lon, lat), in tenths of a degree, was asked for
AskedFor(lon, lat) == PointAnswered /\ dem.lon = lon /\ dem.lat = lat

\* C9: assets_for_point returns exactly one reference, the cell whose south-west
\* corner is (floor(lon), floor(lat)), with N iff lat >= 0, E iff lon >= 0 and
\* the numbers |floor(lat)| and |floor(lon)|: (10, 10) gives N10/E010, (9.9, 9.9)
\* gives N09/E009, (-9.9, -9.9) gives S10/W010, (-10.1, -10.1) gives S11/W011.
C9_PointResolvesToFloorCell ==
    PointAnswered =>
        /\ Len(dem.out) = 1
        /\ \E x \in (0 - MaxDegrees)..MaxDegrees, y \in (0 - MaxDegrees)..MaxDegrees :
              /\ x * 10 <= dem.lon /\ dem.lon < (x + 1) * 10
              /\ y * 10 <= dem.lat /\ dem.lat < (y + 1) * 10
              /\ dem.out[1] = CellUrl(dem.class, x, y)
        /\ AskedFor(100, 100) => IsSubstring("_N10_00_E010_00_DEM.tif", dem.out[1])
        /\ AskedFor(99, 99) => IsSubstring("_N09_00_E009_00_DEM.tif", dem.out[1])
        /\ AskedFor(-99, -99) => IsSubstring("_S10_00_W010_00_DEM.tif", dem.out[1])
        /\ AskedFor(-101, -101) => IsSubstring("_S11_00_W011_00_DEM.tif", dem.out[1])

C9_Witness ==
    /\ AskedFor(-101, 0)
    /\ dem.class = "Dem90Reader"
    /\ dem.out = <<CellUrl("Dem90Reader", -11, 0)>>

\* C10 as stated: the cell number is floor(|lat|) (resp. floor(|lon|)), so a
\* latitude of -0.1 resolves to S00 and a latitude in (-1, 0) never resolves to
\* cell 01.
C10_CellNumberIsFloorOfMagnitude ==
    PointAnswered =>
        /\ IsSubstring("_" \o (IF dem.lat >= 0 THEN "N" ELSE "S")
                       \o ZeroPad(IntToStr(Floor(Abs(dem.lat))), 2) \o "_00_", dem.out[1])
        /\ IsSubstring("_" \o (IF dem.lon >= 0 THEN "E" ELSE "W")
                       \o ZeroPad(IntToStr(Floor(Abs(dem.lon))), 3) \o "_00_DEM", dem.out[1])
        /\ (-10 < dem.lat /\ dem.lat < 0) => ~IsSubstring("_S01_00_", dem.out[1])

\* C10, amended: the cell number is |floor(lat)| (resp. |floor(lon)|) with the
\* hemisphere letter taken from the sign of the input, so a latitude of -0.1,
\* like every latitude in (-1, 0), resolves to the southern cell 01 (S01), and
\* no latitude resolves to S00.
C10_CellNumberIsMagnitudeOfFloor ==
    PointAnswered =>
        /\ IsSubstring("_" \o (IF dem.lat >= 0 THEN "N" ELSE "S")
                       \o ZeroPad(IntToStr(Abs(Floor(dem.lat))), 2) \o "_00_", dem.out[1])
        /\ IsSubstring("_" \o (IF dem.lon >= 0 THEN "E" ELSE "W")
                       \o ZeroPad(IntToStr(Abs(Floor(dem.lon))), 3) \o "_00_DEM", dem.out[1])
        /\ (-10 < dem.lat /\ dem.lat < 0) => IsSubstring("_S01_00_", dem.out[1])
        /\ ~IsSubstring("_S00_00_", dem.out[1])

C10_Witness ==
    /\ AskedFor(-1, -1)
    /\ IsSubstring("_S01_00_W001_00_DEM.tif", dem.out[1])

BboxAnswered == dem # Idle /\ dem.op = "assets_for_bbox"

\* the cells of the columns x0..x1 and the rows y0..y1, column by column from
\* the west, each column from the south
CellsOf(class, x0, x1, y0, y1) ==
    [k \in 1..((x1 + 1 - x0) * (y1 + 1 - y0)) |->
        CellUrl(class, x0 + ((k - 1) \div (y1 + 1 - y0)), y0 + ((k - 1) % (y1 + 1 - y0)))]

\* C11: for a geographic box with xmin <= xmax and ymin <= ymax, assets_for_bbox
\* returns one reference for every cell (i, j) with floor(xmin) <= i <= floor(xmax)
\* and floor(ymin) <= j <= floor(ymax), without duplicates, the westernmost
\* column first and each column from south to north; the box (10, 10, 11, 11)
\* gives N10E010, N11E010, N10E011, N11E011 in that order.
C11_BboxCoversFloorCells ==
    BboxAnswered =>
        /\ dem.out = CellsOf(dem.class, BoxFloor(dem.xmin), BoxFloor(dem.xmax),
                             BoxFloor(dem.ymin), BoxFloor(dem.ymax))
        /\ \A i, j \in 1..Len(dem.out) : dem.out[i] = dem.out[j] => i = j
        /\ (/\ dem.xmin = BoxCoord(100, FALSE) /\ dem.ymin = BoxCoord(100, FALSE)
            /\ dem.xmax = BoxCoord(110, FALSE) /\ dem.ymax = BoxCoord(110, FALSE))
           => dem.out = <<CellUrl(dem.class, 10, 10), CellUrl(dem.class, 10, 11),
                          CellUrl(dem.class, 11, 10), CellUrl(dem.class, 11, 11)>>

(***************************************************************************)
(* MultiBandReader of rio_tiler_pds.reader: a request names bands by a     *)
(* list or by an expression, one task per band resolves the band's URL and *)
(* reads it, and the results are merged when all tasks are done.           *)
(***************************************************************************)
MaxTerms == 2

\* catalogs of the readers the requests are made on
ReadCatalogs == {<<"B01", "B02", "B10">>, <<"B1", "B10", "B01">>}

Terms == {"B01", "B1", "B10", "xB01", "2"}

Operators == {"+", ","}

\* band-math expressions of up to n terms; no sub-expression is empty
RECURSIVE ExprsOf(_)
ExprsOf(n) ==
    IF n <= 1 THEN Terms
    ELSE ExprsOf(n - 1) \cup {e \o o \o t : e \in ExprsOf(n - 1), o \in Operators, t \in Terms}

Expressions == {""} \cup ExprsOf(MaxTerms)

None == [kind |-> "none", str |-> "", seq |-> <<>>]
Str(s) == [kind |-> "str", str |-> s, seq |-> <<>>]
List(seq) == [kind |-> "seq", str |-> "", seq |-> seq]

\* the values passed as `bands`
BandsArgs ==
    {None, Str(""), Str("B01"), List(<<>>), List(<<"B10", "B01">>), List(<<"B02", "XX">>),
     List(<<"B01", "B01">>)}

IsWordAt(s, i) == i >= 1 /\ i <= Len(s) /\ Char(s, i) \in WordChars

\* \b between the characters i - 1 and i of s
WordBoundary(s, i) == IsWordAt(s, i - 1) # IsWordAt(s, i)

\* \bband\b matches at position pos of s
BandAt(band, s, pos) ==
    /\ pos + Len(band) - 1 <= Len(s)
    /\ SubSeq(s, pos, pos + Len(band) - 1) = band
    /\ WordBoundary(s, pos)
    /\ WordBoundary(s, pos + Len(band))

\* a scan that takes a name wherever its characters occur
RECURSIVE FindAllNoBoundary(_, _, _)
FindAllNoBoundary(bands, s, pos) ==
    IF pos > Len(s) THEN <<>>
    ELSE LET hits == {k \in 1..Len(bands) :
                        /\ pos + Len(bands[k]) - 1 <= Len(s)
                        /\ SubSeq(s, pos, pos + Len(bands[k]) - 1) = bands[k]}
         IN  IF hits = {} THEN FindAllNoBoundary(bands, s, pos + 1)
             ELSE <<bands[CHOOSE k \in hits : \A j \in hits : k <= j]>>
                  \o FindAllNoBoundary(bands, s,
                        pos + Len(bands[CHOOSE k \in hits : \A j \in hits : k <= j]))

\* re.findall of the alternation \bb1\b|\bb2\b|... from position pos: the leftmost
\* match, the first alternative that matches there, then on from its end
RECURSIVE FindAll(_, _, _)
FindAll(bands, s, pos) ==
    IF pos > Len(s) THEN <<>>
    ELSE LET hits == {k \in 1..Len(bands) : BandAt(bands[k], s, pos)}
         IN  IF hits = {} THEN FindAll(bands, s, pos + 1)
             ELSE <<bands[CHOOSE k \in hits : \A j \in hits : k <= j]>>
                  \o FindAll(bands, s,
                        pos + Len(bands[CHOOSE k \in hits : \A j \in hits : k <= j]))

\* tuple(set(names)): the distinct names, in an order the hash seed decides
Orderings(S) ==
    {seq \in [1..Cardinality(S) -> S] : \A i, j \in 1..Cardinality(S) : seq[i] = seq[j] => i = j}

\* MultiBandReader.parse_expression: the tuples it may return
parse_expression(self, expression) == Orderings(Range(FindAll(self.bands, expression, 1)))

\* str.split(sep), sep being one character
RECURSIVE Split(_, _)
Split(s, sep) ==
    IF ~IsSubstring(sep, s) THEN <<s>>
    ELSE LET i == CHOOSE i \in 1..Len(s) :
                    Char(s, i) = sep /\ \A j \in 1..(i - 1) : Char(s, j) # sep
         IN  <<SubSeq(s, 1, i - 1)>> \o Split(SubSeq(s, i + 1, Len(s)), sep)

\* a request that never finds the band list empty
NeverMissing(bands) == FALSE

\* `not bands`, for None, a str, or a sequence
NotBands(bands) ==
    \/ bands.kind = "none"
    \/ bands.kind = "str" /\ bands.str = ""
    \/ bands.kind = "seq" /\ bands.seq = <<>>

\* if isinstance(bands, str): bands = (bands,)
AsTuple(bands) == IF bands.kind = "str" THEN List(<<bands.str>>) ELSE bands

\* the resolver of the reader the requests are made on: a catalog member has a URL
read_get_band_url(self, band) ==
    IF band \in Range(self.bands) THEN Ok("s3://bucket/" \o band \o ".tif")
    ELSE Raise("InvalidBandName")

\* the band tuples tile, part, preview and point may go on with: the names the
\* expression holds when there is an expression, the list passed otherwise
requested_bands(self, bands, expression) ==
    IF expression # "" THEN {List(b) : b \in parse_expression(self, expression)}
    ELSE {AsTuple(bands)}

\* the pixels of a tile
Pixels == 2

\* a validity mask is the set of its valid pixels
Masks == SUBSET (1..Pixels)

\* the opened readers: a catalog, bounds (west, south, east, north) and zooms
ReadReaders ==
    {[bands |-> catalog,
      bounds |-> IF catalog[1] = "B01" THEN <<-10, -4, 20, 6>> ELSE <<100, 10, 102, 14>>,
      minzoom |-> IF catalog[1] = "B01" THEN 8 ELSE 7,
      maxzoom |-> IF catalog[1] = "B01" THEN 14 ELSE 12] : catalog \in ReadCatalogs}

\* MultiBandReader.center; the bounds have even sums, so that the halves are exact
center(self) ==
    <<(self.bounds[1] + self.bounds[3]) \div 2, (self.bounds[2] + self.bounds[4]) \div 2,
      self.minzoom>>

\* a spatial_info that reports the whole world at zoom 0
SpatialInfoOfTheWorld(self) ==
    [bounds |-> <<-180, -90, 180, 90>>, center |-> <<0, 0, 0>>, minzoom |-> 0, maxzoom |-> 0]

\* MultiBandReader.spatial_info: a new dict at every access
spatial_info(self) ==
    [bounds |-> self.bounds, center |-> center(self),
     minzoom |-> self.minzoom, maxzoom |-> self.maxzoom]

\* a merge that goes on as soon as one task is done
SomeTaskDone(tasks) == \E i \in 1..Len(tasks) : tasks[i] # "pending"

\* multi_arrays / multi_values hand the results over when every task is done
tasks_done(tasks) == \A i \in 1..Len(tasks) : tasks[i] # "pending"

\* a merge that keeps a pixel valid in any band
AnyMask(masks) == {p \in 1..Pixels : \E i \in 1..Len(masks) : p \in masks[i]}

\* multi_arrays: numpy.all(masks, axis=0)
all_masks(masks) == {p \in 1..Pixels : \A i \in 1..Len(masks) : p \in masks[i]}

ArrayOps == {"tile", "part", "preview"}

\* the masks the band readers of ReadReaders answer with: every pixel valid, or
\* the first one only
ReadMasks == {1..Pixels, {1}}

\* the keyword options of the caller, as (name, value) pairs in the order given
ReadKwargs == {<<>>, <<<<"nodata", "0">>>>}

\* the operation parameters of each operation, at the values the caller gave
OpParams(op) ==
    CASE op \in {"stats", "metadata"} -> <<"pmin", "pmax">>
      [] op = "tile" -> <<"tile_x", "tile_y", "tile_z">>
      [] op = "part" -> <<"bbox">>
      [] op = "point" -> <<"lon", "lat">>
      [] OTHER -> <<>>

\* the positional and the keyword arguments the per-band reader is called with:
\* multi_values(bands, _reader, pmin, pmax, hist_options=hist_options, *kwargs)
\* in stats, where *kwargs unpacks the names of the options as positional
\* arguments; (..., *args, **kwargs) elsewhere, with expression=band_expression
\* in tile, part, preview and point; info calls cog.info()
band_call(op, kwargs) ==
    IF op = "stats"
    THEN [args |-> OpParams(op) \o [i \in 1..Len(kwargs) |-> kwargs[i][1]],
          kwargs |-> <<<<"hist_options", "hist_options">>>>]
    ELSE IF op \in {"tile", "part", "preview", "point"}
    THEN [args |-> OpParams(op), kwargs |-> <<<<"expression", "band_expression">>>> \o kwargs]
    ELSE IF op = "info" THEN [args |-> <<>>, kwargs |-> <<>>]
    ELSE [args |-> OpParams(op), kwargs |-> kwargs]

InitRead ==
    /\ rd_reader \in ReadReaders
    /\ rd_call = Idle /\ rd_pc = "idle" /\ rd_bands = <<>> /\ rd_tasks = <<>>
    /\ rd_log = <<>> /\ rd_out = Idle /\ rd_masks = <<>>
    /\ ps = Idle /\ UrlIdle /\ DemIdle /\ CacheIdle

\* the request raises before any task is created
Refuse(op, bands, expression, warned, kwargs, exc) ==
    /\ rd_call' = [op |-> op, bands |-> bands, expression |-> expression, warned |-> warned,
                   kwargs |-> kwargs]
    /\ rd_pc' = "done"
    /\ rd_out' = Raise(exc)
    /\ UNCHANGED <<rd_reader, rd_bands, rd_tasks, rd_log, rd_masks>>

\* multi_arrays / multi_values submit one task per band
Submit(op, bands, expression, warned, kwargs, resolved) ==
    /\ rd_call' = [op |-> op, bands |-> bands, expression |-> expression, warned |-> warned,
                   kwargs |-> kwargs]
    /\ rd_pc' = "running"
    /\ rd_bands' = resolved
    /\ rd_tasks' = [i \in 1..Len(resolved) |-> "pending"]
    /\ rd_masks' = [i \in 1..Len(resolved) |-> {}]
    /\ UNCHANGED <<rd_reader, rd_log, rd_out>>

\* info, stats and metadata: the list is checked first, then a str is wrapped
CallListOnly(op) ==
    /\ rd_pc = "idle"
    /\ \E bands \in BandsArgs, kwargs \in ReadKwargs :
          IF NotBands(bands) THEN Refuse(op, bands, "", FALSE, kwargs, "MissingBands")
          ELSE Submit(op, bands, "", FALSE, kwargs, AsTuple(bands).seq)
    /\ UNCHANGED <<parseVars, urlVars, demVars, cacheVars>>

\* tile, part, preview and point: a str is wrapped, the mix of both is warned
\* about, the expression replaces the list, and an empty result is refused
CallWithExpression(op) ==
    /\ rd_pc = "idle"
    /\ \E bands \in BandsArgs, expression \in Expressions, kwargs \in ReadKwargs :
          \E resolved \in requested_bands(rd_reader, bands, expression) :
              LET warned == ~NotBands(AsTuple(bands)) /\ expression # ""
              IN  IF NotBands(resolved)
                  THEN Refuse(op, bands, expression, warned, kwargs, "MissingBands")
                  ELSE Submit(op, bands, expression, warned, kwargs, resolved.seq)
    /\ UNCHANGED <<parseVars, urlVars, demVars, cacheVars>>

CallInfo == CallListOnly("info")

CallStats == CallListOnly("stats")

CallMetadata == CallListOnly("metadata")

CallTile == CallWithExpression("tile")

CallPart == CallWithExpression("part")

CallPreview == CallWithExpression("preview")

CallPoint == CallWithExpression("point")

\* _reader(band): the URL is resolved, then the band's reader is opened and read;
\* the read may fail; a tile, part or preview read returns a mask with the data
TaskStep ==
    /\ rd_pc = "running"
    /\ \E i \in 1..Len(rd_tasks) :
          /\ rd_tasks[i] = "pending"
          /\ LET u == read_get_band_url(rd_reader, rd_bands[i])
             IN  IF u.status = "raise"
                 THEN /\ rd_tasks' = [rd_tasks EXCEPT ![i] = u.exc]
                      /\ UNCHANGED <<rd_log, rd_masks>>
                 ELSE /\ rd_log' = Append(rd_log,
                            [band |-> rd_bands[i], url |-> u.val,
                             call |-> band_call(rd_call.op, rd_call.kwargs)])
                      /\ \/ /\ rd_tasks' = [rd_tasks EXCEPT ![i] = "RasterioIOError"]
                            /\ UNCHANGED rd_masks
                         \/ /\ rd_tasks' = [rd_tasks EXCEPT ![i] = "ok"]
                            /\ \E mask \in (IF rd_call.op \in ArrayOps THEN ReadMasks ELSE {{}}) :
                                  rd_masks' = [rd_masks EXCEPT ![i] = mask]
    /\ UNCHANGED <<rd_reader, rd_call, rd_pc, rd_bands, rd_out>>
    /\ UNCHANGED <<parseVars, urlVars, demVars, cacheVars>>

\* labels that name every band once, whatever the operation
LabelsOfDistinctBands(call, bands) ==
    CHOOSE seq \in Orderings(Range(bands)) :
        \A i, j \in 1..Len(seq) :
            (i < j) => (CHOOSE k \in 1..Len(bands) : bands[k] = seq[i])
                       < (CHOOSE k \in 1..Len(bands) : bands[k] = seq[j])

\* the labels of the output: the sub-expressions, or the bands
output_labels(call, bands) ==
    IF call.expression # "" THEN Split(call.expression, ",")
    ELSE IF call.op = "point"
    THEN CHOOSE seq \in Orderings(Range(bands)) :
            \A i, j \in 1..Len(seq) :
                (i < j) => (CHOOSE k \in 1..Len(bands) : bands[k] = seq[i])
                           < (CHOOSE k \in 1..Len(bands) : bands[k] = seq[j])
    ELSE bands

\* what the call returns beside the data: the merged mask of a tile, part or
\* preview, the spatial info of info and metadata
output_mask(call, masks) == IF call.op \in ArrayOps THEN all_masks(masks) ELSE {}

output_meta(self, call) ==
    IF call.op \in {"info", "metadata"} THEN spatial_info(self) ELSE [bounds |-> <<>>]

\* every task is done: the first error in band order is raised, or the results
\* are merged and the expression applied
Collect ==
    /\ rd_pc = "running"
    /\ tasks_done(rd_tasks)
    /\ LET failed == {i \in 1..Len(rd_tasks) : rd_tasks[i] # "ok"}
       IN  rd_out' = IF failed # {}
                     THEN Raise(rd_tasks[CHOOSE i \in failed : \A j \in failed : i <= j])
                     ELSE Ok([bands |-> rd_bands,
                              labels |-> output_labels(rd_call, rd_bands),
                              mask |-> output_mask(rd_call, rd_masks),
                              meta |-> output_meta(rd_reader, rd_call)])
    /\ rd_pc' = "done"
    /\ UNCHANGED <<rd_reader, rd_call, rd_bands, rd_tasks, rd_log, rd_masks>>
    /\ UNCHANGED <<parseVars, urlVars, demVars, cacheVars>>

\* the caller takes the result; the reader keeps nothing of the request
ReadReturn ==
    /\ rd_pc = "done"
    /\ rd_call' = Idle /\ rd_pc' = "idle" /\ rd_bands' = <<>> /\ rd_tasks' = <<>>
    /\ rd_log' = <<>> /\ rd_out' = Idle /\ rd_masks' = <<>>
    /\ UNCHANGED rd_reader
    /\ UNCHANGED <<parseVars, urlVars, demVars, cacheVars>>

NextRead ==
    \/ CallInfo
    \/ CallStats
    \/ CallMetadata
    \/ CallTile
    \/ CallPart
    \/ CallPreview
    \/ CallPoint
    \/ TaskStep
    \/ Collect
    \/ ReadReturn

SpecRead == InitRead /\ [][NextRead]_vars

(***************************************************************************)
(* L8Reader of rio_tiler_pds.landsat.aws.landsat8: the multi-band reader of *)
(* Landsat 8, with its own stats, metadata, tile, part, preview and point.  *)
(* The keyword arguments of the caller are a record; a field is <<>> when   *)
(* the caller did not pass it and <<value>> when it did.                    *)
(***************************************************************************)
landsat8_valid_bands ==
    <<"B1", "B2", "B3", "B4", "B5", "B6", "B7", "B8", "B9", "B10", "B11", "BQA">>

L8SceneIds == {"LC08_L1TP_016037_20170813_20170814_01_RT"}

\* L8Reader.__attrs_post_init__; the bounds are those of the MTL document
L8Reader_init(sceneid) ==
    LET parsed == landsat_sceneid_parser(sceneid)
    IN  IF parsed.status = "raise" THEN parsed
        ELSE Ok([class |-> "L8Reader", sceneid |-> sceneid, scene_params |-> parsed.val,
                 bands |-> landsat8_valid_bands, bounds |-> <<-82, 32, -78, 36>>,
                 minzoom |-> 7, maxzoom |-> 12])

\* L8Reader._get_band_url
L8Reader_get_band_url(self, band) ==
    IF band \notin Range(self.bands) THEN Raise("InvalidBandName")
    ELSE Ok("s3://landsat-pds/c1/L8/" \o self.scene_params.path \o "/"
            \o self.scene_params.row \o "/" \o self.scene_params.scene \o "/"
            \o self.sceneid \o "_" \o band \o ".TIF")

\* keyword arguments that keep what the caller passed
KwargsCallerFirst(op, band, kwargs) ==
    [nodata |-> IF kwargs.nodata # <<>> THEN kwargs.nodata
                ELSE IF band = "BQA" THEN <<1>> ELSE <<0>>,
     resampling_method |->
        IF kwargs.resampling_method # <<>> THEN kwargs.resampling_method
        ELSE IF band = "BQA" /\ op # "point" THEN <<"nearest">> ELSE <<>>]

\* the keyword arguments _reader passes to the reader of one band: nodata is
\* set for every band, resampling_method for BQA (but in point)
l8_reader_kwargs(op, band, kwargs) ==
    [nodata |-> IF band = "BQA" THEN <<1>> ELSE <<0>>,
     resampling_method |-> IF band = "BQA" /\ op # "point" THEN <<"nearest">>
                           ELSE kwargs.resampling_method]

L8BandsArgs ==
    {None, Str("BQA"), List(<<>>), List(<<"B4", "BQA">>), List(<<"B4", "B20">>)}

L8Expressions == {"", "B4+B5", "B4,BQA", "b4"}

L8Kwargs ==
    {[nodata |-> <<>>, resampling_method |-> <<>>],
     [nodata |-> <<5>>, resampling_method |-> <<>>],
     [nodata |-> <<5>>, resampling_method |-> <<"bilinear">>]}

L8Call(op, bands, expression, pan, kwargs) ==
    [op |-> op, bands |-> bands, expression |-> expression, warned |-> FALSE,
     pan |-> pan, kwargs |-> kwargs]

InitL8 ==
    /\ rd_reader \in {L8Reader_init(sceneid).val : sceneid \in L8SceneIds}
    /\ rd_call = Idle /\ rd_pc = "idle" /\ rd_bands = <<>> /\ rd_tasks = <<>>
    /\ rd_log = <<>> /\ rd_out = Idle /\ rd_masks = <<>>
    /\ ps = Idle /\ UrlIdle /\ DemIdle /\ CacheIdle

\* raise MissingBands
L8Refuse(call) ==
    /\ rd_call' = call
    /\ rd_pc' = "done"
    /\ rd_out' = Raise("MissingBands")
    /\ UNCHANGED <<rd_reader, rd_bands, rd_tasks, rd_log, rd_masks>>

\* multi_arrays / multi_values submit one task per band
L8Submit(call, resolved) ==
    /\ rd_call' = call
    /\ rd_pc' = "running"
    /\ rd_bands' = resolved
    /\ rd_tasks' = [i \in 1..Len(resolved) |-> "pending"]
    /\ rd_masks' = [i \in 1..Len(resolved) |-> {}]
    /\ UNCHANGED <<rd_reader, rd_log, rd_out>>

\* stats and metadata: the list is checked first, then a str is wrapped
L8CallListOnly(op) ==
    /\ rd_pc = "idle"
    /\ \E bands \in L8BandsArgs, kwargs \in L8Kwargs :
          IF NotBands(bands) THEN L8Refuse(L8Call(op, bands, "", FALSE, kwargs))
          ELSE L8Submit(L8Call(op, bands, "", FALSE, kwargs), AsTuple(bands).seq)
    /\ UNCHANGED <<parseVars, urlVars, demVars, cacheVars>>

\* tile, part, preview and point: a str is wrapped, the expression replaces
\* the list, an empty result is refused, and B8 is appended for pan-sharpening
L8CallWithExpression(op, pans) ==
    /\ rd_pc = "idle"
    /\ \E bands \in L8BandsArgs, expression \in L8Expressions, pan \in pans,
          kwargs \in L8Kwargs :
          \E resolved \in requested_bands(rd_reader, bands, expression) :
              IF NotBands(resolved)
              THEN L8Refuse(L8Call(op, bands, expression, pan, kwargs))
              ELSE L8Submit(L8Call(op, bands, expression, pan, kwargs),
                            IF pan THEN resolved.seq \o <<"B8">> ELSE resolved.seq)
    /\ UNCHANGED <<parseVars, urlVars, demVars, cacheVars>>

L8Stats == L8CallListOnly("stats")

L8Metadata == L8CallListOnly("metadata")

L8Tile == L8CallWithExpression("tile", BOOLEAN)

L8Part == L8CallWithExpression("part", BOOLEAN)

L8Preview == L8CallWithExpression("preview", BOOLEAN)

L8Point == L8CallWithExpression("point", {FALSE})

\* _reader(band): the URL is resolved, the keyword arguments of the band are
\* made, then the band is opened and read; the read may fail
L8TaskStep ==
    /\ rd_pc = "running"
    /\ \E i \in 1..Len(rd_tasks) :
          /\ rd_tasks[i] = "pending"
          /\ LET u == L8Reader_get_band_url(rd_reader, rd_bands[i])
             IN  IF u.status = "raise"
                 THEN /\ rd_tasks' = [rd_tasks EXCEPT ![i] = u.exc]
                      /\ UNCHANGED <<rd_log, rd_masks>>
                 ELSE /\ rd_log' = Append(rd_log,
                            [band |-> rd_bands[i], url |-> u.val,
                             kwargs |-> l8_reader_kwargs(rd_call.op, rd_bands[i],
                                                         rd_call.kwargs)])
                      /\ \/ /\ rd_tasks' = [rd_tasks EXCEPT ![i] = "RasterioIOError"]
                            /\ UNCHANGED rd_masks
                         \/ /\ rd_tasks' = [rd_tasks EXCEPT ![i] = "ok"]
                            /\ \E mask \in (IF rd_call.op \in ArrayOps THEN Masks ELSE {{}}) :
                                  rd_masks' = [rd_masks EXCEPT ![i] = mask]
    /\ UNCHANGED <<rd_reader, rd_call, rd_pc, rd_bands, rd_out>>
    /\ UNCHANGED <<parseVars, urlVars, demVars, cacheVars>>

\* a band list that keeps the panchromatic band after the sharpening
OutputBandsWithPan(call, bands) == bands

\* bands[:-1] when the panchromatic band was appended
l8_output_bands(call, bands) ==
    IF call.pan THEN SubSeq(bands, 1, Len(bands) - 1) ELSE bands

\* one layer of the stacked array: the band it holds and the panchromatic
\* band it was sharpened with ("" when it was not)
Layer(band, pan) == [band |-> band, pan |-> pan]

\* pansharpening_brovey(data[:-1], data[-1], 0.2, data.dtype): every layer of
\* rgb blended with the panchromatic layer
pansharpening_brovey(rgb, pan) == [i \in 1..Len(rgb) |-> Layer(rgb[i].band, pan.band)]

\* apply_expression(blocks, bands, data): one output per block, evaluated with
\* the names of `bands` bound to the layers of `data`
apply_expression(blocks, bands, data) ==
    [i \in 1..Len(blocks) |-> [expr |-> blocks[i], names |-> bands, layers |-> data]]

\* what tile, part and preview do with the merged array: `if pan:` first,
\* `if expression:` second
l8_post_merge(call, bands) ==
    LET merged == [i \in 1..Len(bands) |-> Layer(bands[i], "")]
        names == l8_output_bands(call, bands)
        data == IF call.pan
                THEN pansharpening_brovey(SubSeq(merged, 1, Len(merged) - 1),
                                          merged[Len(merged)])
                ELSE merged
    IN  IF call.expression # "" /\ call.op # "stats" /\ call.op # "metadata"
        THEN apply_expression(Split(call.expression, ","), names, data)
        ELSE [i \in 1..Len(data) |->
                [expr |-> "", names |-> <<names[i]>>, layers |-> <<data[i]>>]]

\* every task is done: the first error in band order is raised, or the results
\* are merged, pan-sharpened and the expression applied
L8Collect ==
    /\ rd_pc = "running"
    /\ tasks_done(rd_tasks)
    /\ LET failed == {i \in 1..Len(rd_tasks) : rd_tasks[i] # "ok"}
       IN  rd_out' = IF failed # {}
                     THEN Raise(rd_tasks[CHOOSE i \in failed : \A j \in failed : i <= j])
                     ELSE Ok([bands |-> rd_bands,
                              labels |-> output_labels(rd_call,
                                                       l8_output_bands(rd_call, rd_bands)),
                              mask |-> output_mask(rd_call, rd_masks),
                              meta |-> output_meta(rd_reader, rd_call),
                              data |-> l8_post_merge(rd_call, rd_bands)])
    /\ rd_pc' = "done"
    /\ UNCHANGED <<rd_reader, rd_call, rd_bands, rd_tasks, rd_log, rd_masks>>
    /\ UNCHANGED <<parseVars, urlVars, demVars, cacheVars>>

NextL8 ==
    \/ L8Stats
    \/ L8Metadata
    \/ L8Tile
    \/ L8Part
    \/ L8Preview
    \/ L8Point
    \/ L8TaskStep
    \/ L8Collect
    \/ ReadReturn

SpecL8 == InitL8 /\ [][NextL8]_vars

(***************************************************************************)
(* Properties of MultiBandReader                                           *)
(***************************************************************************)
ListOnlyOps == {"info", "stats", "metadata"}

ExpressionOps == {"tile", "part", "preview", "point"}

\* the catalog names that occur in the expression as whole words
NamesIn(catalog, expression) ==
    {name \in Range(catalog) :
        \E i \in 1..Len(expression) :
            /\ i + Len(name) - 1 <= Len(expression)
            /\ SubSeq(expression, i, i + Len(name) - 1) = name
            /\ (i = 1 \/ Char(expression, i - 1) \notin WordChars)
            /\ (i + Len(name) > Len(expression)
                \/ Char(expression, i + Len(name)) \notin WordChars)}

\* the number of comma-separated sub-expressions
SubExpressions(expression) ==
    Cardinality({i \in 1..Len(expression) : Char(expression, i) = ","}) + 1

\* a non-empty list of bands was passed
ListGiven(bands) ==
    \/ bands.kind = "seq" /\ bands.seq # <<>>
    \/ bands.kind = "str" /\ bands.str # ""

\* the bands the per-band reader was asked to read
BandsRead == {rd_log[i].band : i \in 1..Len(rd_log)}

\* a request with both a list and an expression has come to its end
MixedRequestDone ==
    /\ rd_pc = "done"
    /\ rd_call.op \in ExpressionOps
    /\ ListGiven(rd_call.bands)
    /\ rd_call.expression # ""

\* C1: in tile, part, preview and point, with a non-empty list and a non-empty
\* expression, the list is discarded: the bands read are exactly the catalog
\* names occurring in the expression, each read once, and the output has one
\* band (one value for point) per comma-separated sub-expression, labelled by it.
\* The catalogs are the non-empty ones the readers declare, and no
\* sub-expression is empty.
C1_ExpressionReplacesBands ==
    MixedRequestDone =>
        /\ BandsRead = NamesIn(rd_reader.bands, rd_call.expression)
        /\ Len(rd_log) = Cardinality(NamesIn(rd_reader.bands, rd_call.expression))
        /\ rd_out.status = "ok" =>
              /\ Len(rd_out.val.labels) = SubExpressions(rd_call.expression)
              /\ Range(rd_out.val.bands) = NamesIn(rd_reader.bands, rd_call.expression)
              /\ \A i \in 1..Len(rd_out.val.labels) :
                    IsSubstring(rd_out.val.labels[i], rd_call.expression)

C1_Witness ==
    /\ MixedRequestDone
    /\ rd_call.op = "point"
    /\ rd_call.bands = List(<<"B02", "XX">>)
    /\ rd_call.expression = "B10,B01"
    /\ rd_out.status = "ok"
    /\ BandsRead = {"B01", "B10"}
    /\ rd_out.val.labels = <<"B10", "B01">>

\* the request names no band: no list and no expression, or an expression that
\* holds no catalog name
ZeroBands(call, catalog) ==
    IF call.op \in ListOnlyOps THEN call.bands \in {None, List(<<>>)}
    ELSE \/ call.expression = "" /\ call.bands \in {None, List(<<>>)}
         \/ call.expression # "" /\ NamesIn(catalog, call.expression) = {}

\* C2: every operation (info, stats, metadata, tile, part, preview, point) whose
\* request resolves to zero bands raises MissingBands: no task is created and
\* nothing is read, also when a list was passed beside an expression that holds
\* no catalog name.
C2_ZeroBandsRaiseMissingBands ==
    (rd_call # Idle /\ ZeroBands(rd_call, rd_reader.bands)) =>
        /\ rd_pc = "done"
        /\ rd_out = Raise("MissingBands")
        /\ rd_tasks = <<>>
        /\ rd_log = <<>>

C2_Witness ==
    /\ rd_call # Idle
    /\ rd_call.op = "tile"
    /\ rd_call.bands = List(<<"B10", "B01">>)
    /\ rd_call.expression = "xB01+2"
    /\ rd_out = Raise("MissingBands")

\* the names a list request asks for, in the order of the request
RequestedNames(bands) == IF bands.kind = "str" THEN <<bands.str>> ELSE bands.seq

\* a request with a list and no expression has returned a result
ListReadReturned(op) ==
    /\ rd_pc = "done"
    /\ rd_call.op = op
    /\ rd_call.expression = ""
    /\ rd_out.status = "ok"

\* C12: a successful tile read of k >= 1 explicitly requested bands, without an
\* expression, returns exactly k bands, band i being the data of the i-th
\* requested name, and one mask; a name requested twice is read twice and
\* returned twice.
C12_TileReturnsOneBandPerRequestedName ==
    ListReadReturned("tile") =>
        /\ Len(rd_out.val.labels) = Len(RequestedNames(rd_call.bands))
        /\ \A i \in 1..Len(rd_out.val.labels) :
              rd_out.val.labels[i] = RequestedNames(rd_call.bands)[i]
        /\ Len(rd_log) = Len(RequestedNames(rd_call.bands))
        /\ rd_out.val.mask \in Masks

C12_Witness ==
    /\ ListReadReturned("tile")
    /\ rd_call.bands = List(<<"B01", "B01">>)
    /\ rd_out.val.labels = <<"B01", "B01">>
    /\ Len(rd_log) = 2

\* a tile, part, preview or point request that submitted tasks
Submitted == rd_call # Idle /\ rd_call.op \in ExpressionOps /\ rd_tasks # <<>>

C18_PointReturnsOneValuePerRequestedName ==
    ListReadReturned("point") =>
        /\ Len(rd_out.val.labels) = Len(RequestedNames(rd_call.bands))
        /\ \A i \in 1..Len(rd_out.val.labels) :
              rd_out.val.labels[i] = RequestedNames(rd_call.bands)[i]

\* info or metadata has returned
InfoReturned ==
    /\ rd_pc = "done"
    /\ rd_call.op \in {"info", "metadata"}
    /\ rd_out.status = "ok"

C16_CallerKwargsReachTheBandReader ==
    (rd_call # Idle /\ rd_call.op \in {"tile", "part", "preview", "stats", "metadata"}) =>
        \A i \in 1..Len(rd_log) :
            rd_log[i].kwargs = KwargsCallerFirst(rd_call.op, rd_log[i].band, rd_call.kwargs)

\* the errors a read raises for its bands
BandErrors == {"MissingBands", "InvalidBandName", "RasterioIOError"}

\* C17: when tile, part, preview or point of a reader, L8Reader included, is
\* called with a list of bands and an expression, ExpressionMixingWarning is
\* emitted and the call goes on: it raises nothing because of the mix.
C17_MixOfListAndExpressionWarns ==
    (/\ rd_call # Idle
     /\ rd_call.op \in ExpressionOps
     /\ ListGiven(rd_call.bands)
     /\ rd_call.expression # "") =>
        /\ rd_call.warned
        /\ (rd_pc = "done" /\ rd_out.status = "raise") => rd_out.exc \in BandErrors

\* a tile, part or preview has returned a result
ArrayReturned ==
    /\ rd_pc = "done"
    /\ rd_call.op \in ArrayOps
    /\ rd_out.status = "ok"

CacheSize == 2

\* the threads that call the cached function
MaxCallers == 2

\* the stores and hits a run goes through
MaxClock == 5

Callers == 1..MaxCallers

\* the arguments of a call: one more than the cache holds
CacheKeys == 1..(CacheSize + 1)

CallerIdle == [pc |-> "idle", key |-> 0, fetched |-> FALSE, out |-> ""]

WithoutKey(keys, key) ==
    LET other(k) == k # key
    IN  SelectSeq(keys, other)

\* a hit moves the link of the key to the most recent end
lru_hit(keys, key) == Append(WithoutKey(keys, key), key)

\* a store that drops the newest link of a full cache
StoreDroppingNewest(keys, key) ==
    IF key \in Range(keys) THEN keys
    ELSE IF Len(keys) < CacheSize THEN Append(keys, key)
    ELSE Append(SubSeq(keys, 1, Len(keys) - 1), key)

\* the result of a miss is stored: nothing to do when the key was stored
\* meanwhile, a new link while there is room, the oldest link replaced otherwise
lru_store(keys, key) ==
    IF key \in Range(keys) THEN keys
    ELSE IF Len(keys) < CacheSize THEN Append(keys, key)
    ELSE Append(Tail(keys), key)

InitCache ==
    /\ cache_keys = <<>>
    /\ cache_calls = [t \in Callers |-> CallerIdle]
    /\ cache_used = [k \in CacheKeys |-> 0]
    /\ cache_clock = 0
    /\ ps = Idle /\ UrlIdle /\ DemIdle /\ ReadIdle

\* the wrapper is entered: a resident key is answered from the cache, for
\* another key the wrapped function is called
LruLookup ==
    /\ \E t \in Callers, key \in CacheKeys :
          /\ cache_calls[t].pc = "idle"
          /\ IF key \in Range(cache_keys)
             THEN /\ cache_clock < MaxClock
                  /\ cache_keys' = lru_hit(cache_keys, key)
                  /\ cache_clock' = cache_clock + 1
                  /\ cache_used' = [cache_used EXCEPT ![key] = cache_clock + 1]
                  /\ cache_calls' = [cache_calls EXCEPT ![t] =
                        [pc |-> "done", key |-> key, fetched |-> FALSE, out |-> "value"]]
             ELSE /\ cache_calls' = [cache_calls EXCEPT ![t] =
                        [pc |-> "fetching", key |-> key, fetched |-> TRUE, out |-> ""]]
                  /\ UNCHANGED <<cache_keys, cache_used, cache_clock>>
    /\ UNCHANGED <<parseVars, urlVars, demVars, readVars>>

\* aws_get_object / httpx.get returns: the result is stored and handed over
LruStore ==
    /\ cache_clock < MaxClock
    /\ \E t \in Callers :
          /\ cache_calls[t].pc = "fetching"
          /\ cache_keys' = lru_store(cache_keys, cache_calls[t].key)
          /\ cache_clock' = cache_clock + 1
          /\ cache_used' = IF cache_calls[t].key \in Range(cache_keys) THEN cache_used
                           ELSE [cache_used EXCEPT ![cache_calls[t].key] = cache_clock + 1]
          /\ cache_calls' = [cache_calls EXCEPT ![t].pc = "done", ![t].out = "value"]
    /\ UNCHANGED <<parseVars, urlVars, demVars, readVars>>

\* aws_get_object / httpx.get raises: nothing is stored
LruRaise ==
    /\ \E t \in Callers :
          /\ cache_calls[t].pc = "fetching"
          /\ cache_calls' = [cache_calls EXCEPT ![t].pc = "done", ![t].out = "error"]
    /\ UNCHANGED <<cache_keys, cache_used, cache_clock>>
    /\ UNCHANGED <<parseVars, urlVars, demVars, readVars>>

\* the caller goes on with the value or the exception
LruReturn ==
    /\ \E t \in Callers :
          /\ cache_calls[t].pc = "done"
          /\ cache_calls' = [cache_calls EXCEPT ![t] = CallerIdle]
    /\ UNCHANGED <<cache_keys, cache_used, cache_clock>>
    /\ UNCHANGED <<parseVars, urlVars, demVars, readVars>>

NextCache ==
    \/ LruLookup
    \/ LruStore
    \/ LruRaise
    \/ LruReturn

SpecCache == InitCache /\ [][NextCache]_vars

(***************************************************************************)
(* Properties of the object cache                                          *)
(***************************************************************************)
\* the callers whose call of the wrapped function for the key is in flight
Fetching(key) == {t \in Callers : cache_calls[t].pc = "fetching" /\ cache_calls[t].key = key}

\* C14: the cache is single-flight: when callers ask for the same key at the
\* same time while it is not cached, the wrapped function (aws_get_object, the
\* HTTP GET) runs at most once for that key, and the callers share its result.
C14_SingleFlight ==
    \A key \in CacheKeys : Cardinality(Fetching(key)) <= 1

Level1Levels == {"L1TP", "L1GT", "L1GS"}

\* the (processing level, sensor) pairs for which a catalog is declared
DeclaredCatalog(level, sensor_name) ==
    \/ level \in Level1Levels
    \/ level = "L2SR" /\ sensor_name \in {"oli-tirs", "oli", "tm", "etm"}
    \/ level = "L2SP" /\ sensor_name \in {"oli-tirs", "tm", "etm"}

Level1Catalogs ==
    {OLI_L1_BANDS \o OLI_L1_QA_BANDS, TIRS_L1_BANDS \o TIRS_L1_QA_BANDS,
     OLI_L1_BANDS \o TIRS_L1_BANDS \o OLI_L1_QA_BANDS, ETM_L1_BANDS, TM_L1_BANDS,
     MSS_L1_BANDS}

LandsatParsed == ps # Idle /\ ps.op = "landsat" /\ ps.out.status = "ok"

\* C21: a Landsat scene id whose (processing level, sensor) pair has no declared
\* catalog never receives a band catalog, and a Level-1 catalog is returned only
\* for a scene whose processing-level number is 1.
C21_NoCatalogWithoutDeclaredPair ==
    LandsatParsed =>
        /\ DeclaredCatalog(ps.out.val.processingCorrectionLevel, ps.out.val.sensor_name)
        /\ ps.out.val.bands \in Level1Catalogs => ps.out.val._processingLevelNum = "1"

(***************************************************************************)
(* Properties of the reads of the DEM mosaic.                              *)
(***************************************************************************)
MosaicAnswered == dem # Idle /\ dem.op \in {"tile", "point"}

\* the errors that mean "nothing here" for a tile and for a point
ExpectedAbsence(op) ==
    {IF op = "tile" THEN "TileOutsideBounds" ELSE "PointOutsideBounds", "RasterioIOError"}

\* the candidates of seq whose read gave data, in the order of seq
Succeeded(seq, world) ==
    LET Test(a) == world[a] \in ReadSuccesses
    IN  SelectSeq(seq, Test)

\* C22: tile and point try the candidate cells in list order (the reversed list
\* when reverse=True); a candidate failing with TileOutsideBounds (tile) or
\* PointOutsideBounds (point) or RasterioIOError is skipped without aborting,
\* any other failure leaves the call as it is, and a result is returned only if
\* at least one candidate read succeeded: when every candidate is skipped the
\* call raises.
C22_MosaicSkipsExpectedAbsence ==
    MosaicAnswered =>
        LET order == IF dem.reverse THEN Reversed(dem.assets) ELSE dem.assets
            skip == ExpectedAbsence(dem.op)
            tried == dem.out.tried
            n == Len(tried)
        IN  /\ n <= Len(order) /\ tried = SubSeq(order, 1, n)
            /\ \A i \in 1..(n - 1) : dem.world[tried[i]] \in skip \cup {"partial"}
            /\ n < Len(order) => dem.world[tried[n]] \notin skip \cup {"partial"}
            /\ \A i \in 1..n :
                  dem.world[tried[i]] \notin skip \cup ReadSuccesses
                  => dem.out.status = "raise" /\ dem.out.exc = dem.world[tried[i]]
            /\ dem.out.status = "ok"
               => dem.out.used # <<>> /\ dem.out.used = Succeeded(tried, dem.world)
            /\ (\A i \in 1..Len(order) : dem.world[order[i]] \in skip)
               => dem.out.status = "raise" /\ dem.out.exc \notin ReadErrors

\* a reversed tile over four cells whose first two candidates are absent, whose
\* third one has data for a part of the tile and whose last one is absent
C22_Witness ==
    /\ MosaicAnswered
    /\ dem.op = "tile" /\ dem.reverse /\ Len(dem.assets) = 4
    /\ dem.world[dem.assets[4]] = "TileOutsideBounds"
    /\ dem.world[dem.assets[3]] = "RasterioIOError"
    /\ dem.world[dem.assets[2]] = "partial"
    /\ dem.world[dem.assets[1]] = "RasterioIOError"
    /\ dem.out.status = "ok"
    /\ dem.out.used = <<dem.assets[2]>>

(***************************************************************************)
(* Properties of the post-merge transforms of L8Reader.                    *)
(***************************************************************************)
PanReturned ==
    /\ rd_pc = "done" /\ rd_out.status = "ok"
    /\ rd_call.op \in {"tile", "part", "preview"} /\ rd_call.pan

ForwardingOps == {"stats", "metadata", "tile", "part", "preview"}

BandReadIssued == rd_call # Idle /\ rd_call.op \in ForwardingOps /\ rd_log # <<>>

\* C24: stats forwards the operation parameters unchanged to every per-band
\* call: pmin, pmax and hist_options, and every keyword option of the caller
\* (nodata=0, say) reaches the band reader under the same name with the same
\* value, as it does in metadata, tile, part and preview.
C24_StatsForwardsCallerOptions ==
    BandReadIssued =>
        \A i \in 1..Len(rd_log) :
            /\ rd_log[i].call.args = OpParams(rd_call.op)
            /\ \A j \in 1..Len(rd_call.kwargs) :
                  rd_call.kwargs[j] \in Range(rd_log[i].call.kwargs)
            /\ rd_call.op = "stats"
               => <<"hist_options", "hist_options">> \in Range(rd_log[i].call.kwargs)

\* a request of a band list that holds a name the catalog does not have
UnknownBandRequested ==
    /\ rd_call # Idle /\ rd_call.expression = ""
    /\ \E i \in 1..Len(rd_bands) : rd_bands[i] \notin Range(rd_reader.bands)

\* C25: band errors are raised at request time: when the band list of a
\* multi-band read holds a name that is not in the catalog, InvalidBandName is
\* raised before any per-band reader is opened or any read is issued for any
\* band of the request, and the request is not retried.
C25_UnknownBandStopsTheRequestFirst ==
    UnknownBandRequested =>
        /\ rd_log = <<>>
        /\ rd_pc = "done" => rd_out = Raise("InvalidBandName")

(***************************************************************************)
(* Properties of the URLs of the Landsat Collection 2 reader.              *)
(***************************************************************************)
C2UrlAnswered == Answered(LandsatClasses) /\ url.out.status = "ok"

\* C26: every band URL of LandsatC2L2Reader uses the storage sensor prefix: for
\* a scene of the oli sensor, as for oli-tirs, the sensor segment of the URL is
\* 'oli-tirs' (the parser's _sensor_s3_prefix), never 'oli' or 'tirs'.
C26_UrlUsesStorageSensorPrefix ==
    C2UrlAnswered =>
        LET p == rdr.out.val.scene_params
        IN  /\ IsSubstring("/standard/" \o p._sensor_s3_prefix \o "/" \o p.acquisitionYear
                           \o "/", url.out.val)
            /\ ~IsSubstring("/standard/oli/", url.out.val)
            /\ ~IsSubstring("/standard/tirs/", url.out.val)

(***************************************************************************)
(* Opening S2L2ACOGReader: the STAC item is fetched through                *)
(* rio_tiler_pds.utils.fetch, which functools.lru_cache wraps.  The links  *)
(* of that cache are cache_keys; the scenes are opened one after another.  *)
(***************************************************************************)
FetchScenes ==
    {S2New("A", "L2A", "20200219", "29RKH", "0"), S2Legacy("A", "L2A", "20200219", "29RKH", "0"),
     S2New("B", "L2A", "20171005", "05ABC", "1"), S2New("A", "L2A", "20171005", "5ABC", "0"),
     "S2A_L2A"}

\* what the network answers to a GET of the HTTPS location and to a GetObject
\* of the S3 location
HttpsOutcomes == {"ok", "HTTPStatusError", "ConnectError"}

S3Outcomes == {"ok", "ClientError", "JSONDecodeError"}

\* the item stored for every scene
StacItemAt(filepath) ==
    [stac_version |-> "1.0.0",
     assets |-> {sentinel_l2a_band_map[i][2] : i \in 1..Len(sentinel_l2a_band_map)}]

\* the two locations of the item of a scene
https_location(p) ==
    "https://sentinel-cogs.s3.us-west-2.amazonaws.com/" \o s2_cog_prefix(p) \o "/"
    \o cog_sceneid(p) \o ".json"

s3_location(p) == "s3://sentinel-cogs/" \o s2_cog_prefix(p) \o "/" \o cog_sceneid(p) \o ".json"

\* rio_tiler_pds.utils.fetch, the wrapped function: the scheme picks the client
fetch(filepath, world) ==
    LET answer == IF StartsWith(filepath, "s3://") THEN world.s3
                  ELSE IF StartsWith(filepath, "https://") \/ StartsWith(filepath, "http://")
                          \/ StartsWith(filepath, "ftp://")
                  THEN world.https
                  ELSE "FileNotFoundError"
    IN  IF answer = "ok" THEN Ok(StacItemAt(filepath)) ELSE Raise(answer)

FetchCall(filepath, hit, out, keys) ==
    [out |-> out, keys |-> keys,
     call |-> [filepath |-> filepath, hit |-> hit, status |-> out.status, exc |-> out.exc]]

\* the lru_cache wrapper of fetch: a resident key is answered without a call of
\* the function, the value of a miss is stored, an exception is not
lru_fetch(keys, filepath, world) ==
    IF filepath \in Range(keys)
    THEN FetchCall(filepath, TRUE, Ok(StacItemAt(filepath)), lru_hit(keys, filepath))
    ELSE LET out == fetch(filepath, world)
         IN  FetchCall(filepath, FALSE, out,
                       IF out.status = "ok" THEN lru_store(keys, filepath) ELSE keys)

\* an opening that asks the S3 location first
FetchItemS3First(keys, p, world) ==
    LET first == lru_fetch(keys, s3_location(p), world)
        second == lru_fetch(first.keys, https_location(p), world)
    IN  IF first.out.status = "ok"
        THEN [out |-> first.out, keys |-> first.keys, log |-> <<first.call>>]
        ELSE [out |-> second.out, keys |-> second.keys, log |-> <<first.call, second.call>>]

\* try: self.stac_item = fetch(https...)  except: self.stac_item = fetch(s3...)
fetch_stac_item(keys, p, world) ==
    LET first == lru_fetch(keys, https_location(p), world)
        second == lru_fetch(first.keys, s3_location(p), world)
    IN  IF first.out.status = "ok"
        THEN [out |-> first.out, keys |-> first.keys, log |-> <<first.call>>]
        ELSE [out |-> second.out, keys |-> second.keys, log |-> <<first.call, second.call>>]

InitFetch == UrlIdle /\ CacheIdle /\ ps = Idle /\ DemIdle /\ ReadIdle

\* S2L2ACOGReader(input): the id is parsed, the item fetched, the catalog made
OpenS2L2ACOGFetching ==
    /\ rdr = Idle
    /\ \E input \in FetchScenes, https \in HttpsOutcomes, s3 \in S3Outcomes :
          LET parsed == s2_sceneid_parser(input)
              item == fetch_stac_item(cache_keys, parsed.val, [https |-> https, s3 |-> s3])
          IN  IF parsed.status = "raise"
              THEN /\ rdr' = [op |-> "S2L2ACOGReader", input |-> input, log |-> <<>>,
                              out |-> parsed]
                   /\ UNCHANGED cache_keys
              ELSE /\ rdr' = [op |-> "S2L2ACOGReader", input |-> input, log |-> item.log,
                              out |-> IF item.out.status = "raise" THEN item.out
                                      ELSE S2L2ACOGReader_init(input, item.out.val)]
                   /\ cache_keys' = item.keys
    /\ UNCHANGED <<url, opts, cache_calls, cache_used, cache_clock>>
    /\ UNCHANGED <<parseVars, demVars, readVars>>

\* the with-block ends, or the constructor's error reaches the caller; the
\* cache of fetch lives on
CloseFetched ==
    /\ rdr # Idle
    /\ rdr' = Idle
    /\ UNCHANGED <<url, opts, parseVars, demVars, readVars, cacheVars>>

NextFetch ==
    \/ OpenS2L2ACOGFetching
    \/ CloseFetched

SpecFetch == InitFetch /\ [][NextFetch]_vars

(***************************************************************************)
(* Properties of the opening of S2L2ACOGReader.                            *)
(***************************************************************************)
FetchedOpen == rdr # Idle /\ rdr.log # <<>>

\* C27: opening an S2L2ACOGReader tries the HTTPS location first and the s3://
\* location second: the S3 fetch is issued only after the HTTPS fetch failed
\* (with any error), never when HTTPS succeeded, and when both fail the S3
\* error leaves the constructor and no reader is returned; a failed fetch is
\* not cached, so a later open of the scene tries HTTPS first again.
C27_HttpsFirstThenS3 ==
    FetchedOpen =>
        LET log == rdr.log
        IN  /\ StartsWith(log[1].filepath, "https://")
            /\ Len(log) <= 2
            /\ Len(log) = 2 <=> log[1].status = "raise"
            /\ Len(log) = 2 => StartsWith(log[2].filepath, "s3://")
            /\ log[Len(log)].status = "raise"
               => rdr.out.status = "raise" /\ rdr.out.exc = log[Len(log)].exc
            /\ (Len(log) = 2 /\ log[2].status = "raise") => log[2].exc \in S3Outcomes
            /\ log[Len(log)].status = "ok" => rdr.out.status = "ok"
            /\ \A i \in 1..Len(log) :
                  log[i].status = "raise"
                  => ~log[i].hit /\ log[i].filepath \notin Range(cache_keys)

\* HTTPS failed and S3 answered
C27_Witness ==
    /\ FetchedOpen
    /\ Len(rdr.log) = 2
    /\ rdr.log[1].exc = "ConnectError"
    /\ rdr.log[2].status = "ok" /\ ~rdr.log[2].hit
    /\ rdr.out.status = "ok"
    /\ Len(cache_keys) = 2

(***************************************************************************)
(* Properties of the functions that pick a Sentinel reader.                *)
(***************************************************************************)
Picked(function) == rdr # Idle /\ rdr.op = function

\* the parser accepts the id handed to the function as a Sentinel-2 id
ParserAccepts == s2_sceneid_parser(rdr.input).status = "ok"

ClassOfLevel(class, level) ==
    /\ level = "L1C" => class = "S2L1CReader"
    /\ level = "L2A" => class \in {"S2L2AReader", "S2L2ACOGReader"}
    /\ class = "S2L2ACOGReader" => level = "L2A"

\* C28: SentinelReader agrees with the scene-id parser: every Sentinel-2 id the
\* parser accepts (legacy, new and product-id form, one- or two-digit UTM zone
\* and scene index) whose level has a reader is dispatched to a reader and not
\* refused with InvalidSentinelSceneId, and the reader matches the level (L1C
\* to S2L1CReader, L2A to an L2A reader, the COG reader only for L2A, as
\* S2COGReader enforces).
C28_DispatcherAgreesWithParser ==
    /\ (Picked("SentinelReader") /\ ParserAccepts)
       => LET level == s2_sceneid_parser(rdr.input).val.processingLevel
          IN  /\ level \in {"L1C", "L2A"} => rdr.out.status = "ok"
              /\ rdr.out.status = "ok" => ClassOfLevel(rdr.out.val.class, level)
    /\ (Picked("S2COGReader") /\ rdr.out.status = "ok")
       => s2_sceneid_parser(rdr.input).val.processingLevel = "L2A"

(***************************************************************************)
(* The reader_options attribute of the reader classes.  attr.ib(default=d) *)
(* gives every instance the object d itself; attr.ib(factory=dict) calls   *)
(* dict() for every instance.  A dict is an object of a store, and an       *)
(* instance holds a reference to one.                                      *)
(***************************************************************************)
MaxInstances == 2

OptionClasses ==
    {"S1L1CReader", "S2L1CReader", "S2L2AReader", "LandsatC2L2Reader", "CBERSReader"}

\* a dict of options: the value of each key, "" for a key it does not hold
EmptyDict == [nodata |-> "", options |-> ""]

\* the attr.ib of reader_options of each class; S2L2AReader inherits the
\* attribute of S2L1CReader
reader_options_attrib(class) ==
    CASE class = "S1L1CReader"
           -> [kind |-> "default", object |-> "S1L1CReader.reader_options",
               value |-> [nodata |-> "0", options |-> ""]]
      [] class \in {"S2L1CReader", "S2L2AReader"}
           -> [kind |-> "default", object |-> "S2L1CReader.reader_options",
               value |-> [nodata |-> "", options |-> "{'nodata': 0}"]]
      [] class = "LandsatC2L2Reader"
           -> [kind |-> "default", object |-> "LandsatC2L2Reader.reader_options",
               value |-> EmptyDict]
      [] OTHER -> [kind |-> "factory", object |-> "", value |-> EmptyDict]

DefaultObjects ==
    {reader_options_attrib(class).object :
        class \in {c \in OptionClasses : reader_options_attrib(c).kind = "default"}}

\* the dict made for the instance in slot i: by the caller, or by the factory
FreshObject(i) == "dict " \o IntToStr(i)

\* the store when the classes have been defined and no reader constructed
InitialObjects ==
    [o \in DefaultObjects \cup {FreshObject(i) : i \in 1..MaxInstances} |->
        IF \E class \in OptionClasses : reader_options_attrib(class).object = o
        THEN reader_options_attrib(
                CHOOSE class \in OptionClasses : reader_options_attrib(class).object = o).value
        ELSE EmptyDict]

\* the dict an instance hands to the per-band reader: **self.reader_options
band_reader_options(o, i) == o.objects[o.readers[i].ref]

InitOptions ==
    /\ opts = [objects |-> InitialObjects, readers |-> <<>>, last |-> 0]
    /\ rdr = Idle /\ url = Idle
    /\ ps = Idle /\ DemIdle /\ ReadIdle /\ CacheIdle

\* Reader(sceneid) or Reader(sceneid, reader_options={}): the attrs __init__
NewReader ==
    /\ Len(opts.readers) < MaxInstances
    /\ \E class \in OptionClasses, passed \in BOOLEAN :
          LET slot == Len(opts.readers) + 1
              attrib == reader_options_attrib(class)
              fresh == passed \/ attrib.kind = "factory"
              ref == IF fresh THEN FreshObject(slot) ELSE attrib.object
          IN  opts' = [objects |-> IF fresh THEN [opts.objects EXCEPT ![ref] = EmptyDict]
                                   ELSE opts.objects,
                       readers |-> Append(opts.readers,
                                          [class |-> class, passed |-> passed, ref |-> ref]),
                       last |-> 0]
    /\ UNCHANGED <<rdr, url, parseVars, demVars, readVars, cacheVars>>

\* reader.reader_options["nodata"] = value, on the instance in slot i
SetReaderOption ==
    /\ \E i \in 1..Len(opts.readers), value \in {"5"} :
          opts' = [opts EXCEPT !.objects[opts.readers[i].ref].nodata = value, !.last = i]
    /\ UNCHANGED <<rdr, url, parseVars, demVars, readVars, cacheVars>>

\* the instances go away; the classes, and the dicts they hold, stay
DiscardReaders ==
    /\ opts.readers # <<>>
    /\ opts' = [objects |-> [o \in DOMAIN opts.objects |->
                                IF o \in DefaultObjects THEN opts.objects[o] ELSE EmptyDict],
                readers |-> <<>>, last |-> 0]
    /\ UNCHANGED <<rdr, url, parseVars, demVars, readVars, cacheVars>>

NextOptions ==
    \/ NewReader
    \/ SetReaderOption
    \/ DiscardReaders

SpecOptions == InitOptions /\ [][NextOptions]_vars

\* C29: reader instances do not share option state: for two readers of the same
\* class constructed without passing reader_options, changing an entry of one
\* instance's reader_options never changes the options the other instance
\* passes to its per-band reader; so for S1L1CReader, S2L1CReader/S2L2AReader
\* and LandsatC2L2Reader as for the readers whose default is made by a factory.
C29_ReadersDoNotShareOptions ==
    [][\A i, j \in 1..Len(opts.readers) :
          (/\ opts'.last = i /\ opts'.readers = opts.readers /\ i # j
           /\ opts.readers[i].class = opts.readers[j].class
           /\ ~opts.readers[i].passed /\ ~opts.readers[j].passed)
          => band_reader_options(opts', j) = band_reader_options(opts, j)]_vars

(***************************************************************************)
(* The two enumerations of the cells of the DEM mosaic.                    *)
(***************************************************************************)
BoxZero == BoxCoord(0, FALSE)

\* Dem30Reader._get_dataset_url for coordinates that are doubles: the letters
\* from the sign of the input, the numbers from math.floor
get_dataset_url_of_doubles(self, lon, lat) ==
    LET northsouth == IF BoxLeq(BoxZero, lat) THEN "N" ELSE "S"
        eastwest == IF ~BoxLeq(BoxZero, lon) THEN "W" ELSE "E"
    IN  "s3://" \o self.bucket \o "/"
        \o dem_prefix(self, northsouth, eastwest, Abs(BoxFloor(lat)), Abs(BoxFloor(lon)))
        \o ".tif"

ReaderOfClass(class) == IF class = "Dem30Reader" THEN Dem30Reader ELSE Dem90Reader

\* assets_for_bbox was asked for the box that is one point
PointBoxAnswered == BboxAnswered /\ dem.xmin = dem.xmax /\ dem.ymin = dem.ymax

\* C30: the two enumerations agree: for every geographic point (lon, lat) with
\* -360 < lon and -180 < lat, assets_for_bbox(lon, lat, lon, lat) is the
\* one-element list assets_for_point(lon, lat) returns, for negative and for
\* integer-valued coordinates too.
C30_PointBoxIsThePointCell ==
    PointBoxAnswered =>
        dem.out = <<get_dataset_url_of_doubles(ReaderOfClass(dem.class), dem.xmin, dem.ymin)>>

====
